---- MODULE Spec2Model ----
(***************************************************************************)
(* The two supervised-fine-tuning recipes of the repository:               *)
(*   "fireworks": src/unnamed/part_000 (demonstrations, Fireworks)         *)
(*   "openai":    src/recipes/supervised_fine_tuning/metrics/openai/       *)
(*                openai.ipynb (metric feedback, OpenAI)                   *)
(* Each is a notebook: its cells run top to bottom, every cell is one      *)
(* step.  The model covers the transformation of the queried rows into     *)
(* provider messages: render_message, render_output and the two           *)
(* sample_to_..._messages functions; then the                              *)
(* drop of the null rows and what is handed to the provider.               *)
(*                                                                         *)
(* Python values.  A slot that holds values of several Python types is     *)
(* modelled by tagged records: Str(s) a str, Dict(d) a dict, List(l) a     *)
(* list, None the value None.  Python strings are TLA+ strings; \o is      *)
(* string concatenation.                                                   *)
(***************************************************************************)
EXTENDS Integers, Sequences, FiniteSets, TLC

VARIABLES
    recipe,                 \* which notebook runs: "fireworks" or "openai"
    DROP_INVALID_MESSAGES,  \* the Fireworks notebook's setting (unused by OpenAI)
    function_type,          \* config["functions"][FUNCTION_NAME]["type"]
    variant,                \* the keys of the chosen variant's configuration
    pc,                     \* the position of the run
    queried,                \* the rows the query returned (df is reassigned)
    df,                     \* the rows of the data frame
    warnings,               \* the texts of the warnings.warn calls, in order
    train_df,               \* OpenAI: the rows of the training split
    val_df,                 \* OpenAI: the rows of the validation split
    dataset,                \* the lines written for the provider, per file
    error,                  \* the exception that ended the run, or None
    config,                 \* the configuration file as toml.load gave it
    metric,                 \* OpenAI: config["metrics"][METRIC_NAME]
    store,                  \* the tables of the store the query reads
    issued,                 \* how many queries were issued to the store
    VAL_FRACTION,           \* OpenAI: the validation fraction, in percent
    split_runs,             \* OpenAI: how often the split cell has run
    call,                   \* a call of a pure function: its name and argument
    ret,                    \* what that call returned
    job,                    \* the fine-tuning job at the provider, or None
    job_status,             \* what the last poll read (Fireworks: stdout)
    printed,                \* how many "Error: ..." lines the polling loop printed
    fine_tuned_model,       \* the model's name (Fireworks: model_id, model_identifier)
    model_config,           \* the model configuration, once built
    full_variant_config     \* the variant configuration, once built

vars == <<recipe, DROP_INVALID_MESSAGES, function_type, variant, pc, queried, df,
          warnings, train_df, val_df, dataset, error, config, metric, store,
          issued, VAL_FRACTION, split_runs, call, ret, job, job_status, printed,
          fine_tuned_model, model_config, full_variant_config>>

\* What the cells after the dataset cell assign.
job_vars ==
    <<job, job_status, printed, fine_tuned_model, model_config, full_variant_config>>

\* ------------------------------------------------------------------ bounds

\* Content blocks of one message (or one chat output) handed to render_message
\* (render_output) in SpecRender.
MaxBlocks == 3

\* Input messages of one queried row.
MaxMsgs == 2

\* Content blocks of one queried row: those of its input messages and of its
\* chat output together.
MaxRowBlocks == 2

\* Rows of one query result in SpecRows.
MaxRows == 3

\* Runs of the split cell in one run of the notebook (the cell can be run again).
MaxSplitRuns == 2

\* VAL_FRACTION = 0.2, in percent.
VAL_PERCENT == 20

\* ----------------------------------------------------------- Python values

None == [none |-> TRUE]

Str(s) == [str |-> s]

Dict(d) == [dict |-> d]

List(l) == [list |-> l]

\* isinstance(v, str)
IsStr(v) == "str" \in DOMAIN v

\* len(v) of a str or a dict
PyLen(v) == IF IsStr(v) THEN Len(v.str) ELSE Cardinality(DOMAIN v.dict)

\* A faulty variant of Join: " ".join(texts).
RECURSIVE Join_with_space(_)
Join_with_space(texts) ==
    IF Len(texts) = 0 THEN ""
    ELSE IF Len(texts) = 1 THEN texts[1]
    ELSE texts[1] \o " " \o Join_with_space(Tail(texts))

\* "\n".join(texts)
RECURSIVE Join(_)
Join(texts) ==
    IF Len(texts) = 0 THEN ""
    ELSE IF Len(texts) = 1 THEN texts[1]
    ELSE texts[1] \o "\n" \o Join(Tail(texts))

\* json.dumps of a tool call's arguments: a dict with the one key "q", or a str
json_dumps(v) ==
    IF IsStr(v) THEN "\"" \o v.str \o "\""
    ELSE "{\"q\": \"" \o v.dict.q \o "\"}"

\* The templates of the variant, by role, as read from the template files: a
\* role has one when the variant names its template.
templates ==
    [n \in {r \in {"assistant", "system", "user"} : (r \o "_template") \in variant} |->
        CASE n = "system" -> "S:"
          [] n = "user" -> "U:"
          [] n = "assistant" -> "A:"]

\* env.render_template(name, **kwargs): the external renderer, a pure function
\* of the template and the variables (here: the one variable "q", if any).
render_template(name, kwargs) ==
    templates[name] \o (IF "q" \in DOMAIN kwargs.dict THEN kwargs.dict.q ELSE "")

\* f"<think>{text}</think>"
think(text) == "<think>" \o text \o "</think>"

\* The three warning texts of the block loops.
MayNotSupportWarning(type) ==
    "Fireworks may not support content block type: " \o type \o ", dropping example."

\* A faulty variant of DoNotSupportWarning: the text does not name the type.
DoNotSupportWarning_untyped(type) ==
    "We do not support this content block type, dropping example."

DoNotSupportWarning(type) ==
    "We do not support content block type: " \o type \o ", dropping example."

ToolCallWarning ==
    "Fireworks may not support tool calls in assistant messages. Including it may cause the fine-tuning job to fail."

ToolResultWarning ==
    "Fireworks may not support tool results in user messages. Including it may cause the fine-tuning job to fail."

\* warning_message(role)
warning_message(role) ==
    "Fireworks does not support multiple content blocks per message. "
    \o "We have chosen to concatenate the text across all content blocks for the message with role '"
    \o role \o "'. You may want to manually review this behavior."

\* The tool_calls entry built from a tool_call block.
tool_call_entry(content_block) ==
    [function |-> [arguments |-> json_dumps(content_block.arguments),
                   name |-> content_block.name],
     id |-> content_block.id,
     type |-> "function"]

\* A faulty variant of tool_message: the id and the result change places.
tool_message_swapped(content_block) ==
    [role |-> "tool",
     tool_call_id |-> content_block.result,
     content |-> Str(content_block.id)]

\* The tool-role message built from a tool_result block.  The content of a
\* message is a str here and may be a list or a dict elsewhere: it is tagged.
tool_message(content_block) ==
    [role |-> "tool",
     tool_call_id |-> content_block.id,
     content |-> Str(content_block.result)]

\* The {"type": "text", "text": ...} part appended to content.
text_part(text) == [type |-> "text", text |-> text]

\* The locals of a block loop before its first iteration; returned is TRUE once
\* the loop has executed `return None`.
loop_start ==
    [content |-> <<>>, tool_calls |-> <<>>, rendered_messages |-> <<>>,
     warnings |-> <<>>, returned |-> FALSE]

\* ------------------------------------------------- render_message (Fireworks)

\* A faulty variant of fireworks_message_block: DROP_INVALID_MESSAGES is not
\* consulted.
fireworks_message_block_ignores_flag(role, content_block, l) ==
    IF content_block.type = "text" THEN
        LET parsed_content ==
              IF IsStr(content_block.value) THEN content_block.value.str
              ELSE render_template(role, content_block.value)
        IN [l EXCEPT !.content = Append(@, text_part(parsed_content))]
    ELSE IF content_block.type = "raw_text" THEN
        [l EXCEPT !.content = Append(@, text_part(content_block.value.str))]
    ELSE IF content_block.type = "thought" THEN
        [l EXCEPT !.content = Append(@, text_part(think(content_block.text)))]
    ELSE IF content_block.type = "tool_call" /\ role = "assistant" THEN
        [l EXCEPT !.warnings = Append(@, ToolCallWarning),
                  !.tool_calls = Append(@, tool_call_entry(content_block))]
    ELSE IF content_block.type = "tool_result" /\ role = "user" THEN
        [l EXCEPT !.warnings = Append(@, ToolResultWarning),
                  !.rendered_messages = Append(@, tool_message(content_block))]
    ELSE
        [l EXCEPT !.warnings = Append(@, DoNotSupportWarning(content_block.type)),
                  !.returned = TRUE]

\* One iteration of the loop over message["content"]: the locals after it.
fireworks_message_block(role, content_block, l) ==
    IF content_block.type \notin {"text", "raw_text"} /\ DROP_INVALID_MESSAGES THEN
        [l EXCEPT !.warnings = Append(@, MayNotSupportWarning(content_block.type)),
                  !.returned = TRUE]
    ELSE IF content_block.type = "text" THEN
        LET parsed_content ==
              IF IsStr(content_block.value) THEN content_block.value.str
              ELSE render_template(role, content_block.value)
        IN [l EXCEPT !.content = Append(@, text_part(parsed_content))]
    ELSE IF content_block.type = "raw_text" THEN
        [l EXCEPT !.content = Append(@, text_part(content_block.value.str))]
    ELSE IF content_block.type = "thought" THEN
        [l EXCEPT !.content = Append(@, text_part(think(content_block.text)))]
    ELSE IF content_block.type = "tool_call" /\ role = "assistant"
            /\ ~DROP_INVALID_MESSAGES THEN
        [l EXCEPT !.warnings = Append(@, ToolCallWarning),
                  !.tool_calls = Append(@, tool_call_entry(content_block))]
    ELSE IF content_block.type = "tool_result" /\ role = "user"
            /\ ~DROP_INVALID_MESSAGES THEN
        \* Tool results get priority: appended to rendered_messages at once.
        [l EXCEPT !.warnings = Append(@, ToolResultWarning),
                  !.rendered_messages = Append(@, tool_message(content_block))]
    ELSE
        [l EXCEPT !.warnings = Append(@, DoNotSupportWarning(content_block.type)),
                  !.returned = TRUE]

\* The loop over message["content"] from block i on; it ends at `return None`.
RECURSIVE fireworks_message_loop(_, _, _, _)
fireworks_message_loop(role, blocks, i, l) ==
    IF i > Len(blocks) \/ l.returned THEN l
    ELSE fireworks_message_loop(role, blocks, i + 1,
                                fireworks_message_block(role, blocks[i], l))

\* The role message of the Fireworks recipe: the texts joined into one str.
fireworks_role_message(role, content, tool_calls) ==
    IF Len(content) > 0 /\ Len(tool_calls) > 0 THEN
        [role |-> role,
         content |-> Str(Join([k \in 1..Len(content) |-> content[k].text])),
         tool_calls |-> tool_calls]
    ELSE IF Len(content) > 0 THEN
        [role |-> role,
         content |-> Str(Join([k \in 1..Len(content) |-> content[k].text]))]
    ELSE [role |-> role, tool_calls |-> tool_calls]

\* The end of render_message (Fireworks), given the locals l the loop left:
\* [ret, warnings], ret None or the list rendered_messages.
fireworks_message_return(role, l) ==
    IF l.returned THEN [ret |-> None, warnings |-> l.warnings]
    ELSE IF Len(l.content) > 0 \/ Len(l.tool_calls) > 0 THEN
        [ret |-> List(Append(l.rendered_messages,
                             fireworks_role_message(role, l.content, l.tool_calls))),
         warnings |-> IF Len(l.content) > 1
                      THEN Append(l.warnings, warning_message(role))
                      ELSE l.warnings]
    ELSE [ret |-> List(l.rendered_messages), warnings |-> l.warnings]

\* render_message of the Fireworks notebook.
fireworks_render_message(message) ==
    fireworks_message_return(message.role,
        fireworks_message_loop(message.role, message.content, 1, loop_start))

\* ---------------------------------------------------- render_message (OpenAI)

\* A faulty variant of openai_message_block: the tool blocks are taken
\* whatever the role of the message.
openai_message_block_any_role(role, content_block, l) ==
    IF content_block.type = "text" THEN
        LET parsed_content ==
              IF IsStr(content_block.value) THEN content_block.value.str
              ELSE render_template(role, content_block.value)
        IN [l EXCEPT !.content = Append(@, text_part(parsed_content))]
    ELSE IF content_block.type = "raw_text" THEN
        [l EXCEPT !.content = Append(@, text_part(content_block.value.str))]
    ELSE IF content_block.type = "thought" THEN
        [l EXCEPT !.content = Append(@, text_part(think(content_block.text)))]
    ELSE IF content_block.type = "tool_call" THEN
        [l EXCEPT !.tool_calls = Append(@, tool_call_entry(content_block))]
    ELSE IF content_block.type = "tool_result" THEN
        [l EXCEPT !.rendered_messages = Append(@, tool_message(content_block))]
    ELSE
        [l EXCEPT !.warnings = Append(@, DoNotSupportWarning(content_block.type)),
                  !.returned = TRUE]

\* One iteration of the loop over message["content"]: the locals after it.
openai_message_block(role, content_block, l) ==
    IF content_block.type = "text" THEN
        LET parsed_content ==
              IF IsStr(content_block.value) THEN content_block.value.str
              ELSE render_template(role, content_block.value)
        IN [l EXCEPT !.content = Append(@, text_part(parsed_content))]
    ELSE IF content_block.type = "raw_text" THEN
        [l EXCEPT !.content = Append(@, text_part(content_block.value.str))]
    ELSE IF content_block.type = "thought" THEN
        [l EXCEPT !.content = Append(@, text_part(think(content_block.text)))]
    ELSE IF content_block.type = "tool_call" /\ role = "assistant" THEN
        [l EXCEPT !.tool_calls = Append(@, tool_call_entry(content_block))]
    ELSE IF content_block.type = "tool_result" /\ role = "user" THEN
        \* Tool results get priority: appended to rendered_messages at once.
        [l EXCEPT !.rendered_messages = Append(@, tool_message(content_block))]
    ELSE
        [l EXCEPT !.warnings = Append(@, DoNotSupportWarning(content_block.type)),
                  !.returned = TRUE]

RECURSIVE openai_message_loop(_, _, _, _)
openai_message_loop(role, blocks, i, l) ==
    IF i > Len(blocks) \/ l.returned THEN l
    ELSE openai_message_loop(role, blocks, i + 1,
                             openai_message_block(role, blocks[i], l))

\* A faulty variant of openai_role_message: the texts are joined into one str,
\* as the Fireworks recipe does.
openai_role_message_joined(role, content, tool_calls) ==
    IF Len(content) > 0 /\ Len(tool_calls) > 0 THEN
        [role |-> role,
         content |-> Str(Join([k \in 1..Len(content) |-> content[k].text])),
         tool_calls |-> tool_calls]
    ELSE IF Len(content) > 0 THEN
        [role |-> role,
         content |-> Str(Join([k \in 1..Len(content) |-> content[k].text]))]
    ELSE [role |-> role, tool_calls |-> tool_calls]

\* The role message of the OpenAI recipe: the list of text parts as it is.
openai_role_message(role, content, tool_calls) ==
    IF Len(content) > 0 /\ Len(tool_calls) > 0 THEN
        [role |-> role, content |-> List(content), tool_calls |-> tool_calls]
    ELSE IF Len(content) > 0 THEN [role |-> role, content |-> List(content)]
    ELSE [role |-> role, tool_calls |-> tool_calls]

\* A faulty variant of openai_message_return: the role message is put in front
\* of the tool messages.
openai_message_return_role_first(role, l) ==
    IF l.returned THEN [ret |-> None, warnings |-> l.warnings]
    ELSE IF Len(l.content) > 0 \/ Len(l.tool_calls) > 0 THEN
        [ret |-> List(<<openai_role_message(role, l.content, l.tool_calls)>>
                      \o l.rendered_messages),
         warnings |-> l.warnings]
    ELSE [ret |-> List(l.rendered_messages), warnings |-> l.warnings]

\* The end of render_message (OpenAI), given the locals l the loop left:
\* [ret, warnings], ret None or the list rendered_messages.
openai_message_return(role, l) ==
    IF l.returned THEN [ret |-> None, warnings |-> l.warnings]
    ELSE IF Len(l.content) > 0 \/ Len(l.tool_calls) > 0 THEN
        [ret |-> List(Append(l.rendered_messages,
                             openai_role_message(role, l.content, l.tool_calls))),
         warnings |-> l.warnings]
    ELSE [ret |-> List(l.rendered_messages), warnings |-> l.warnings]

\* render_message of the OpenAI notebook.
openai_render_message(message) ==
    openai_message_return(message.role,
        openai_message_loop(message.role, message.content, 1, loop_start))

\* render_message of the notebook that runs.
render_message(message) ==
    IF recipe = "fireworks" THEN fireworks_render_message(message)
    ELSE openai_render_message(message)

\* -------------------------------------------------- render_output (Fireworks)

\* A faulty variant of fireworks_output_block: DROP_INVALID_MESSAGES is not
\* consulted.
fireworks_output_block_ignores_flag(content_block, l) ==
    IF content_block.type = "text" THEN
        [l EXCEPT !.content = Append(@, text_part(content_block.text))]
    ELSE IF content_block.type = "thought" THEN
        [l EXCEPT !.content = Append(@, text_part(think(content_block.text)))]
    ELSE IF content_block.type = "tool_call" THEN
        [l EXCEPT !.warnings = Append(@, ToolCallWarning),
                  !.tool_calls = Append(@, tool_call_entry(content_block))]
    ELSE
        [l EXCEPT !.warnings = Append(@, DoNotSupportWarning(content_block.type)),
                  !.returned = TRUE]

\* A faulty variant of fireworks_output_block: without DROP_INVALID_MESSAGES a
\* block of a type the loop does not handle is skipped.
fireworks_output_block_skips(content_block, l) ==
    IF content_block.type # "text" /\ DROP_INVALID_MESSAGES THEN
        [l EXCEPT !.warnings = Append(@, MayNotSupportWarning(content_block.type)),
                  !.returned = TRUE]
    ELSE IF content_block.type = "text" THEN
        [l EXCEPT !.content = Append(@, text_part(content_block.text))]
    ELSE IF content_block.type = "thought" THEN
        [l EXCEPT !.content = Append(@, text_part(think(content_block.text)))]
    ELSE IF content_block.type = "tool_call" /\ ~DROP_INVALID_MESSAGES THEN
        [l EXCEPT !.warnings = Append(@, ToolCallWarning),
                  !.tool_calls = Append(@, tool_call_entry(content_block))]
    ELSE l

\* One iteration of the loop over the blocks of a chat output.
fireworks_output_block(content_block, l) ==
    IF content_block.type # "text" /\ DROP_INVALID_MESSAGES THEN
        [l EXCEPT !.warnings = Append(@, MayNotSupportWarning(content_block.type)),
                  !.returned = TRUE]
    ELSE IF content_block.type = "text" THEN
        [l EXCEPT !.content = Append(@, text_part(content_block.text))]
    ELSE IF content_block.type = "thought" THEN
        [l EXCEPT !.content = Append(@, text_part(think(content_block.text)))]
    ELSE IF content_block.type = "tool_call" /\ ~DROP_INVALID_MESSAGES THEN
        [l EXCEPT !.warnings = Append(@, ToolCallWarning),
                  !.tool_calls = Append(@, tool_call_entry(content_block))]
    ELSE
        [l EXCEPT !.warnings = Append(@, DoNotSupportWarning(content_block.type)),
                  !.returned = TRUE]

RECURSIVE fireworks_output_loop(_, _, _)
fireworks_output_loop(blocks, i, l) ==
    IF i > Len(blocks) \/ l.returned THEN l
    ELSE fireworks_output_loop(blocks, i + 1, fireworks_output_block(blocks[i], l))

\* The assistant message built once the blocks are collected (Fireworks).
fireworks_output_message(content, tool_calls) ==
    IF Len(content) > 0 /\ Len(tool_calls) > 0 THEN
        [role |-> "assistant",
         content |-> Str(Join([k \in 1..Len(content) |-> content[k].text])),
         tool_calls |-> tool_calls]
    ELSE IF Len(content) > 0 THEN
        [role |-> "assistant",
         content |-> Str(Join([k \in 1..Len(content) |-> content[k].text]))]
    ELSE IF Len(tool_calls) > 0 THEN [role |-> "assistant", tool_calls |-> tool_calls]
    ELSE [role |-> "assistant"]

\* The end of render_output (Fireworks) for a chat function, given the locals l
\* the loop left.
fireworks_output_return(l) ==
    IF l.returned THEN [ret |-> None, warnings |-> l.warnings, error |-> None]
    ELSE [ret |-> fireworks_output_message(l.content, l.tool_calls),
          warnings |-> IF Len(l.content) > 1
                       THEN Append(l.warnings, warning_message("assistant"))
                       ELSE l.warnings,
          error |-> None]

\* A faulty variant of fireworks_render_output: the output of a JSON function
\* is dropped when invalid messages are.
fireworks_render_output_drops_json(output) ==
    IF function_type = "json" THEN
        [ret |-> IF DROP_INVALID_MESSAGES THEN None
                 ELSE [role |-> "assistant", content |-> Str(output.dict.raw)],
         warnings |-> <<>>, error |-> None]
    ELSE fireworks_output_return(fireworks_output_loop(output.list, 1, loop_start))

\* render_output of the Fireworks notebook: [ret, warnings, error]; ret is None
\* or the assistant message, error the exception raised (None: none).
fireworks_render_output(output) ==
    IF function_type = "json" THEN
        [ret |-> [role |-> "assistant", content |-> Str(output.dict.raw)],
         warnings |-> <<>>, error |-> None]
    ELSE IF function_type = "chat" THEN
        fireworks_output_return(fireworks_output_loop(output.list, 1, loop_start))
    ELSE [ret |-> None, warnings |-> <<>>, error |-> Str("ValueError")]

\* ----------------------------------------------------- render_output (OpenAI)

\* A faulty variant of openai_output_block: a tool call takes the place of the
\* tool calls before it.
openai_output_block_keeps_last(content_block, l) ==
    IF content_block.type = "text" THEN
        [l EXCEPT !.content = Append(@, text_part(content_block.text))]
    ELSE IF content_block.type = "thought" THEN
        [l EXCEPT !.content = Append(@, text_part(think(content_block.text)))]
    ELSE IF content_block.type = "tool_call" THEN
        [l EXCEPT !.tool_calls = <<tool_call_entry(content_block)>>]
    ELSE
        [l EXCEPT !.warnings = Append(@, DoNotSupportWarning(content_block.type)),
                  !.returned = TRUE]

\* One iteration of the loop over the blocks of a chat output.
openai_output_block(content_block, l) ==
    IF content_block.type = "text" THEN
        [l EXCEPT !.content = Append(@, text_part(content_block.text))]
    ELSE IF content_block.type = "thought" THEN
        [l EXCEPT !.content = Append(@, text_part(think(content_block.text)))]
    ELSE IF content_block.type = "tool_call" THEN
        [l EXCEPT !.tool_calls = Append(@, tool_call_entry(content_block))]
    ELSE
        [l EXCEPT !.warnings = Append(@, DoNotSupportWarning(content_block.type)),
                  !.returned = TRUE]

RECURSIVE openai_output_loop(_, _, _)
openai_output_loop(blocks, i, l) ==
    IF i > Len(blocks) \/ l.returned THEN l
    ELSE openai_output_loop(blocks, i + 1, openai_output_block(blocks[i], l))

\* The assistant message built once the blocks are collected (OpenAI).
openai_output_message(content, tool_calls) ==
    IF Len(content) > 0 /\ Len(tool_calls) > 0 THEN
        [role |-> "assistant", content |-> List(content), tool_calls |-> tool_calls]
    ELSE IF Len(content) > 0 THEN [role |-> "assistant", content |-> List(content)]
    ELSE IF Len(tool_calls) > 0 THEN [role |-> "assistant", tool_calls |-> tool_calls]
    ELSE [role |-> "assistant"]

\* The end of render_output (OpenAI) for a chat function, given the locals l the
\* loop left.
openai_output_return(l) ==
    IF l.returned THEN [ret |-> None, warnings |-> l.warnings, error |-> None]
    ELSE [ret |-> openai_output_message(l.content, l.tool_calls),
          warnings |-> l.warnings, error |-> None]

\* render_output of the OpenAI notebook: [ret, warnings, error].
openai_render_output(output) ==
    IF function_type = "json" THEN
        [ret |-> [role |-> "assistant", content |-> Str(output.dict.raw)],
         warnings |-> <<>>, error |-> None]
    ELSE IF function_type = "chat" THEN
        openai_output_return(openai_output_loop(output.list, 1, loop_start))
    ELSE [ret |-> None, warnings |-> <<>>, error |-> Str("ValueError")]

\* render_output of the notebook that runs.
render_output(output) ==
    IF recipe = "fireworks" THEN fireworks_render_output(output)
    ELSE openai_render_output(output)

\* ------------------------------------------------------------ the row function

\* json.loads of a column value.  A column holds a JSON text: Json(doc) is the
\* text of the document doc, Malformed a text that is no JSON.
Json(doc) == [json |-> doc]

Malformed == [malformed |-> TRUE]

json_loads(text) ==
    IF "json" \in DOMAIN text THEN [ret |-> text.json, error |-> None]
    ELSE [ret |-> None, error |-> Str("JSONDecodeError")]

\* Reading the global system_template_path: the templates cell binds it (to a
\* path, which is truthy) only in its branch `if "system_template" in variant`;
\* reading it unbound raises NameError.
system_template_path ==
    IF "system_template" \in variant THEN [value |-> TRUE, error |-> None]
    ELSE [value |-> FALSE, error |-> Str("NameError")]

\* function_input.get("system", {})
get_system(function_input) ==
    IF "system" \in DOMAIN function_input THEN function_input.system ELSE Dict(<<>>)

\* The system-message block of sample_to_*_messages: the messages it appends,
\* or the exception it raises.  `len(system) > 0 or system_template_path` reads
\* the global when len(system) is 0, the inner `if` reads it otherwise.
system_messages(function_input) ==
    LET system == get_system(function_input) IN
    IF PyLen(system) = 0 /\ system_template_path.error # None THEN
        [ret |-> <<>>, error |-> system_template_path.error]
    ELSE IF PyLen(system) > 0 \/ system_template_path.value THEN
        IF system_template_path.error # None THEN
            [ret |-> <<>>, error |-> system_template_path.error]
        ELSE IF system_template_path.value THEN
            IF IsStr(system) THEN
                \* **system with a str: TypeError
                [ret |-> <<>>, error |-> Str("TypeError")]
            ELSE [ret |-> <<[role |-> "system",
                             content |-> Str(render_template("system", system))]>>,
                  error |-> None]
        ELSE [ret |-> <<[role |-> "system", content |-> system]>>, error |-> None]
    ELSE [ret |-> <<>>, error |-> None]

\* A faulty variant of extend_rendered: the list is put in front of
\* rendered_messages instead of behind it.
extend_rendered_in_front(l, again) ==
    [l EXCEPT !.warnings = @ \o again.warnings,
              !.rendered_messages = again.ret.list \o @]

\* rendered_messages.extend(...) with the list that call returned.
extend_rendered(l, again) ==
    [l EXCEPT !.warnings = @ \o again.warnings,
              !.rendered_messages = @ \o again.ret.list]

\* A faulty variant of input_message_rendered: the row ends on an empty list as
\* it does on None (`if not rendered_message`).
input_message_rendered_falsy(message, l, first) ==
    IF first.ret = None THEN
        [l EXCEPT !.warnings = @ \o first.warnings, !.returned = TRUE]
    ELSE IF first.ret.list = <<>> THEN
        [l EXCEPT !.warnings = @ \o first.warnings, !.returned = TRUE]
    ELSE IF recipe = "openai" THEN
        [l EXCEPT !.warnings = @ \o first.warnings \o render_message(message).warnings,
                  !.rendered_messages = @ \o render_message(message).ret.list]
    ELSE [l EXCEPT !.warnings = @ \o first.warnings,
                   !.rendered_messages = @ \o first.ret.list]

\* A faulty variant of input_message_rendered: a message for which render_message
\* returned None is skipped (`continue`) instead of ending the row.
input_message_rendered_skips(message, l, first) ==
    IF first.ret = None THEN
        [l EXCEPT !.warnings = @ \o first.warnings]
    ELSE IF recipe = "openai" THEN
        [l EXCEPT !.warnings = @ \o first.warnings \o render_message(message).warnings,
                  !.rendered_messages = @ \o render_message(message).ret.list]
    ELSE [l EXCEPT !.warnings = @ \o first.warnings,
                   !.rendered_messages = @ \o first.ret.list]

\* The body of the loop over function_input["messages"] after
\* rendered_message = render_message(message) returned `first`.  The OpenAI
\* notebook extends by a second evaluation of render_message(message), the
\* Fireworks notebook by the value it holds.  l.returned: `return None` ran.
input_message_rendered(message, l, first) ==
    IF first.ret = None THEN
        [l EXCEPT !.warnings = @ \o first.warnings, !.returned = TRUE]
    ELSE IF recipe = "openai" THEN
        extend_rendered([l EXCEPT !.warnings = @ \o first.warnings],
                        render_message(message))
    ELSE extend_rendered(l, first)

\* One iteration of the loop over function_input["messages"].
input_message(message, l) ==
    input_message_rendered(message, l, render_message(message))

RECURSIVE input_messages_loop(_, _, _)
input_messages_loop(messages, i, l) ==
    IF i > Len(messages) \/ l.returned THEN l
    ELSE input_messages_loop(messages, i + 1, input_message(messages[i], l))

\* The column of the row that holds the assistant turn: the demonstration
\* (f.value) in the Fireworks notebook, the inference's output in the OpenAI one.
output_column(sample) ==
    IF recipe = "fireworks" THEN sample.value ELSE sample.output

\* sample_to_..._messages from rendered_output = render_output(output) on; l
\* holds rendered_messages and the warnings so far.
sample_after_render_output(l, rendered_output) ==
    IF rendered_output.error # None THEN
        [ret |-> None, warnings |-> l.warnings \o rendered_output.warnings,
         error |-> rendered_output.error]
    ELSE IF rendered_output.ret = None THEN
        [ret |-> None, warnings |-> l.warnings \o rendered_output.warnings,
         error |-> None]
    ELSE [ret |-> [messages |-> Append(l.rendered_messages, rendered_output.ret)],
          warnings |-> l.warnings \o rendered_output.warnings,
          error |-> None]

\* ... from output = json.loads(...) on.
sample_after_output(l, output) ==
    IF output.error # None THEN
        [ret |-> None, warnings |-> l.warnings, error |-> output.error]
    ELSE sample_after_render_output(l, render_output(output.ret))

\* ... from the end of the loop over the input messages on.
sample_after_messages(sample, l) ==
    IF l.returned THEN [ret |-> None, warnings |-> l.warnings, error |-> None]
    ELSE sample_after_output(l, json_loads(output_column(sample)))

\* ... from the end of the system-message block on.
sample_after_system(sample, function_input, system) ==
    IF system.error # None THEN
        [ret |-> None, warnings |-> <<>>, error |-> system.error]
    ELSE sample_after_messages(sample,
            input_messages_loop(function_input.messages, 1,
                [rendered_messages |-> system.ret, warnings |-> <<>>,
                 returned |-> FALSE]))

\* ... from function_input = json.loads(sample["input"]) on.
sample_after_input(sample, function_input) ==
    IF function_input.error # None THEN
        [ret |-> None, warnings |-> <<>>, error |-> function_input.error]
    ELSE sample_after_system(sample, function_input.ret,
                             system_messages(function_input.ret))

\* sample_to_conversational_messages / sample_to_openai_messages:
\* [ret, warnings, error]; ret is None or {"messages": [...]}.
sample_to_messages(sample) ==
    sample_after_input(sample, json_loads(sample.input))

\* ------------------------------------------------------------------- inputs

\* The sequences over S of length at most n.
SeqsUpTo(S, n) == UNION {[1..k -> S] : k \in 0..n}

TextBlock == [type |-> "text", value |-> Str("Yo")]

TemplatedTextBlock == [type |-> "text", value |-> Dict([q |-> "x"])]

RawTextBlock == [type |-> "raw_text", value |-> Str("Hi")]

ThoughtBlock == [type |-> "thought", text |-> "Hm"]

ToolCallBlock ==
    [type |-> "tool_call", id |-> "c1", name |-> "f", arguments |-> Dict([q |-> "x"])]

\* A tool call whose arguments are stored as a string.
StrToolCallBlock ==
    [type |-> "tool_call", id |-> "c2", name |-> "g", arguments |-> Str("{}")]

ToolResultBlock(id, result) == [type |-> "tool_result", id |-> id, result |-> result]

\* A block of a type the notebooks do not know.
ImageBlock == [type |-> "image"]

\* The text block of a chat output carries its text under "text".
OutputTextBlock == [type |-> "text", text |-> "Ok"]

\* The blocks of the input messages given to render_message in SpecRender.
MessageBlocks ==
    {TextBlock, TemplatedTextBlock, RawTextBlock, ThoughtBlock, ToolCallBlock,
     StrToolCallBlock, ToolResultBlock("t1", "42"), ToolResultBlock("t2", "7"),
     ImageBlock}

\* The blocks of the chat outputs given to render_output in SpecRender.
OutputBlocks ==
    {OutputTextBlock, ThoughtBlock, ToolCallBlock, StrToolCallBlock,
     ToolResultBlock("t1", "42"), ImageBlock}

Roles == {"user", "assistant"}

Messages ==
    {[role |-> r, content |-> c] : r \in Roles, c \in SeqsUpTo(MessageBlocks, MaxBlocks)}

\* The output of a JSON function: {"raw": ..., "parsed": ...}.
JsonOutput == Dict([raw |-> "{\"a\": 1}"])

\* The outputs of a JSON function given to render_output in SpecRender: raw
\* texts of an object, of nothing and of a list of blocks.
JsonOutputs ==
    {JsonOutput, Dict([raw |-> ""]),
     Dict([raw |-> "[{\"type\": \"tool_call\"}, {\"type\": \"image\"}]"])}

\* The blocks of the rows of the pipeline.
RowMessageBlocks == {TextBlock, ToolCallBlock, ToolResultBlock("t1", "42"), ImageBlock}

RowOutputBlocks == {OutputTextBlock, ToolCallBlock, ImageBlock}

\* The lists of at most m messages that hold at most t blocks together.
RECURSIVE MessageLists(_, _)
MessageLists(m, t) ==
    {<<>>} \cup
    (IF m = 0 THEN {}
     ELSE UNION {
        {<<[role |-> r, content |-> c]>> \o rest :
            r \in Roles, c \in [1..k -> RowMessageBlocks],
            rest \in MessageLists(m - 1, t - k)} : k \in 0..t})

RECURSIVE BlockCount(_)
BlockCount(messages) ==
    IF Len(messages) = 0 THEN 0
    ELSE Len(messages[1].content) + BlockCount(Tail(messages))

\* The system values a stored input may carry: structured data when the variant
\* has a system template (it is rendered with it), a plain string otherwise.
SystemValues ==
    IF "system_template" \in variant THEN {Dict([q |-> "s"])} ELSE {Str("Be brief")}

\* The function inputs over a list of messages: without and with "system".
FunctionInputs(messages) ==
    {[messages |-> messages]}
    \cup {[system |-> v, messages |-> messages] : v \in SystemValues}

\* The texts of the column that holds the assistant turn, with at most t blocks.
OutputTexts(t) ==
    {Malformed} \cup
    (IF function_type = "json" THEN {Json(JsonOutput)}
     ELSE {Json(List(o)) : o \in SeqsUpTo(RowOutputBlocks, t)})

EpisodeIds == {"e1"}

\* The row of the query: variant_name, input, output, value, episode_id, under
\* its label in the data frame's index.  The Fireworks query joins the
\* demonstration as value, the OpenAI query the metric feedback; the column the
\* recipe does not read holds a fixed value.
Row(index, input, turn, episode_id) ==
    IF recipe = "fireworks" THEN
        [index |-> index, variant_name |-> "v", input |-> input,
         output |-> Json(List(<<OutputTextBlock>>)), value |-> turn,
         episode_id |-> episode_id]
    ELSE
        [index |-> index, variant_name |-> "v", input |-> input, output |-> turn,
         value |-> Json(Str("true")), episode_id |-> episode_id]

\* The stored inputs: a text that is no JSON, or a function input.
InputTexts ==
    {Malformed}
    \cup UNION {{Json(fi) : fi \in FunctionInputs(ms)} :
                    ms \in MessageLists(MaxMsgs, MaxRowBlocks)}

\* The content blocks of a stored input.
InputBlockCount(input) ==
    IF "json" \in DOMAIN input THEN BlockCount(input.json.messages) ELSE 0

\* ------------------------------------------------------------------ the store

\* The metric of the runs whose query result is taken as it comes: a boolean
\* metric on inferences, to be maximised.  The Fireworks notebook has none.
DefaultMetric ==
    IF recipe = "openai"
    THEN [type |-> "boolean", level |-> "inference", optimize |-> "max"]
    ELSE None

FUNCTION_NAME == "extract_entities"

METRIC_NAME == "exact_match"

TEMPLATE_VARIANT_NAME == "gpt_4o_mini"

\* The tables of the configuration file the notebooks look for, by their TOML
\* headers: [functions], [functions.extract_entities], ... and [metrics],
\* [metrics.exact_match].
FunctionTables ==
    <<"functions", "functions." \o FUNCTION_NAME,
      "functions." \o FUNCTION_NAME \o ".variants",
      "functions." \o FUNCTION_NAME \o ".variants." \o TEMPLATE_VARIANT_NAME>>

MetricTables == <<"metrics", "metrics." \o METRIC_NAME>>

\* The first n tables of a chain of nested tables.
Tables(chain, n) == {chain[k] : k \in 1..n}

\* A configuration file that has the function, its variant and, for the OpenAI
\* notebook, the metric which the state holds.
Loaded ==
    [tables |-> Tables(FunctionTables, 4)
                \cup (IF recipe = "openai" THEN Tables(MetricTables, 2) ELSE {}),
     function_type |-> function_type, variant |-> variant, metric |-> metric]

\* The tables of the store are left open where the result of the query is
\* taken as it comes.
NoStore == [inference |-> <<>>, feedback |-> {}]

\* FLOAT_METRIC_THRESHOLD = 0.5, in percent as the feedback values are.
FLOAT_METRIC_THRESHOLD == 50

MAX_SAMPLES == 100000

\* Feedback values are in percent: a boolean is 0 or 100.
threshold == IF metric.type = "float" THEN FLOAT_METRIC_THRESHOLD ELSE 50

comparison_operator == IF metric.optimize = "max" THEN ">=" ELSE "<="

\* value {comparison_operator} %(threshold)s
compares(value) ==
    IF comparison_operator = ">=" THEN value >= threshold ELSE value <= threshold

\* The WHERE clause of the feedback subquery.  The Fireworks notebook reads
\* DemonstrationFeedback whole.
feedback_where(f) ==
    \/ recipe = "fireworks"
    \/ /\ f.metric_name = METRIC_NAME
       /\ compares(f.value)

\* ROW_NUMBER() OVER (PARTITION BY target ORDER BY timestamp DESC) ... rn = 1
\* over the rows the WHERE clause lets through: one row of the greatest
\* timestamp for every target.  Which one of several such rows gets number 1 is
\* the store's choice; the result is the set of the choices it can make.
first_rows(feedback) ==
    LET numbered == {f \in feedback : feedback_where(f)}
    IN {rn1 \in SUBSET numbered :
          /\ \A f \in numbered :
               Cardinality({g \in rn1 : g.target_id = f.target_id}) = 1
          /\ \A g \in rn1 : \A f \in numbered :
               f.target_id = g.target_id => f.timestamp <= g.timestamp}

\* A faulty variant of inference_table_name: a function of another type is
\* taken for a chat function.
inference_table_name_default ==
    IF function_type = "json" THEN Str("JsonInference") ELSE Str("ChatInference")

\* {"chat": "ChatInference", "json": "JsonInference"}.get(function_type)
inference_table_name ==
    CASE function_type = "chat" -> Str("ChatInference")
      [] function_type = "json" -> Str("JsonInference")
      [] OTHER -> None

\* {"float": ..., "boolean": ...}.get(metric["type"])
feedback_table_name ==
    CASE metric.type = "float" -> Str("FloatMetricFeedback")
      [] metric.type = "boolean" -> Str("BooleanMetricFeedback")
      [] OTHER -> None

\* {"episode": "episode_id", "inference": "id"}.get(metric["level"])
inference_join_key ==
    CASE metric.level = "episode" -> Str("episode_id")
      [] metric.level = "inference" -> Str("id")
      [] OTHER -> None

\* i.{inference_join_key}; the demonstration query joins on i.id.
join_value(i) ==
    IF recipe = "openai" /\ inference_join_key = Str("episode_id")
    THEN i.episode_id ELSE i.id

\* The columns selected for inference i joined with feedback row f.
selected(index, i, f) ==
    [index |-> index, variant_name |-> i.variant_name, input |-> i.input,
     output |-> i.output, value |-> f.value, episode_id |-> i.episode_id]

\* The inferences of the function joined with the feedback rows f, in the order
\* of the inference table.
RECURSIVE join(_, _, _, _)
join(inference, k, f, rows) ==
    IF k > Len(inference) THEN rows
    ELSE join(inference, k + 1, f,
              IF /\ inference[k].function_name = FUNCTION_NAME
                 /\ \E g \in f : g.target_id = join_value(inference[k])
              THEN Append(rows,
                          selected(Len(rows), inference[k],
                                   CHOOSE g \in f :
                                       g.target_id = join_value(inference[k])))
              ELSE rows)

\* LIMIT %(max_samples)s
limit(rows) ==
    IF Len(rows) <= MAX_SAMPLES THEN rows ELSE SubSeq(rows, 1, MAX_SAMPLES)

\* ----------------------------------------------------------------- the cells

\* The row with the new column: df["conversational_messages"] (Fireworks) or
\* df["openai_messages"] (OpenAI).
with_messages(sample, value) ==
    IF recipe = "fireworks" THEN
        [index |-> sample.index, variant_name |-> sample.variant_name,
         input |-> sample.input, output |-> sample.output, value |-> sample.value,
         episode_id |-> sample.episode_id, conversational_messages |-> value]
    ELSE
        [index |-> sample.index, variant_name |-> sample.variant_name,
         input |-> sample.input, output |-> sample.output, value |-> sample.value,
         episode_id |-> sample.episode_id, openai_messages |-> value]

\* The new column of a row.
messages_of(row) ==
    IF recipe = "fireworks" THEN row.conversational_messages ELSE row.openai_messages

\* One row of df.apply, r what the row function did: a = [rows, warnings, error]
\* after it.
apply_result(sample, a, r) ==
    IF r.error # None THEN
        [a EXCEPT !.warnings = @ \o r.warnings, !.error = r.error]
    ELSE [a EXCEPT !.warnings = @ \o r.warnings,
                   !.rows = Append(@, with_messages(sample, r.ret))]

apply_row(sample, a) == apply_result(sample, a, sample_to_messages(sample))

\* df.apply(sample_to_..._messages, axis=1): the rows in order; an exception
\* ends the apply.
RECURSIVE apply_rows(_, _, _)
apply_rows(rows, i, a) ==
    IF i > Len(rows) \/ a.error # None THEN a
    ELSE apply_rows(rows, i + 1, apply_row(rows[i], a))

\* A faulty variant of notna: the null rows stay.
notna_keeps_all(rows) == rows

\* df[df[column].notna()]
RECURSIVE notna(_)
notna(rows) ==
    IF Len(rows) = 0 THEN <<>>
    ELSE (IF messages_of(rows[1]) = None THEN <<>> ELSE <<rows[1]>>)
         \o notna(Tail(rows))

\* The query cell: df = clickhouse_client.query_df(query, params).
QueryCell ==
    /\ pc = "configured"
    /\ \E input \in InputTexts :
         \E turn \in OutputTexts(MaxRowBlocks - InputBlockCount(input)) :
           \E episode_id \in EpisodeIds :
             df' = <<Row(0, input, turn, episode_id)>>
    /\ queried' = df'
    /\ pc' = "queried"
    /\ issued' = issued + 1
    /\ UNCHANGED <<job_vars, config, metric, store, VAL_FRACTION, split_runs, recipe, DROP_INVALID_MESSAGES, function_type, variant, warnings,
                   train_df, val_df, dataset, error, call, ret>>

\* The effect of the transform cell, a what df.apply did.
transform_effect(a) ==
    /\ warnings' = warnings \o a.warnings
    /\ IF a.error # None
       THEN /\ error' = a.error
            /\ pc' = "failed"
            /\ df' = df
       ELSE /\ error' = error
            /\ pc' = "transformed"
            /\ df' = notna(a.rows)

\* The cell that defines render_message, render_output and sample_to_..._messages,
\* applies the latter to every row and drops the null rows.
TransformCell ==
    /\ pc = "queried"
    /\ transform_effect(
         apply_rows(df, 1, [rows |-> <<>>, warnings |-> <<>>, error |-> None]))
    /\ UNCHANGED <<job_vars, config, metric, store, issued, VAL_FRACTION, split_runs, recipe, DROP_INVALID_MESSAGES, function_type, variant, queried,
                   train_df, val_df, dataset, call, ret>>

\* The lines of a JSONL file: one per row, the row's messages object.
lines(rows) == [k \in 1..Len(rows) |-> messages_of(rows[k])]

\* Fireworks: the cell that writes the rows to the dataset file and creates the
\* dataset.
FireworksDatasetCell ==
    /\ recipe = "fireworks"
    /\ pc = "transformed"
    /\ dataset' = [written |-> TRUE, files |-> <<lines(df)>>]
    /\ pc' = "written"
    /\ UNCHANGED <<job_vars, config, metric, store, issued, VAL_FRACTION, split_runs, recipe, DROP_INVALID_MESSAGES, function_type, variant, queried, df,
                   warnings, train_df, val_df, error, call, ret>>

\* A faulty variant of unique: every row's id, repeated ones too.
unique_with_repeats(rows, seen) ==
    seen \o [k \in 1..Len(rows) |-> rows[k].episode_id]

\* df["episode_id"].unique(): the ids in the order of their first appearance.
RECURSIVE unique(_, _)
unique(rows, seen) ==
    IF Len(rows) = 0 THEN seen
    ELSE unique(Tail(rows),
                IF \E k \in 1..Len(seen) : seen[k] = rows[1].episode_id
                THEN seen ELSE Append(seen, rows[1].episode_id))

\* The permutations of 1..n a shuffle without the seed may apply.
shuffle_unseeded(n) ==
    {p \in [1..n -> 1..n] : \A a, b \in 1..n : p[a] = p[b] => a = b}

\* np.random.seed(42); np.random.shuffle(x) for len(x) = n <= 6: the generator
\* is MT19937 initialised from 42, the shuffle draws j in 0..i for i = n-1
\* down to 1 and swaps x[i] and x[j].  Position k of the result holds the
\* element that stood at position seed_42[n][k] (counted from 1).
seed_42 ==
    <<<<1>>, <<2, 1>>, <<1, 2, 3>>, <<2, 4, 1, 3>>, <<2, 5, 3, 1, 4>>,
      <<1, 2, 6, 3, 5, 4>>>>

\* The permutations the seeded shuffle may apply to n elements: the one.
shuffle(n) == IF n = 0 THEN {<<>>} ELSE {seed_42[n]}

\* df[df["episode_id"].isin(ids)]
RECURSIVE isin(_, _)
isin(rows, ids) ==
    IF Len(rows) = 0 THEN <<>>
    ELSE (IF \E k \in 1..Len(ids) : ids[k] = rows[1].episode_id
          THEN <<rows[1]>> ELSE <<>>)
         \o isin(Tail(rows), ids)

\* int(len(unique_episode_ids) * (1 - VAL_FRACTION))
split_index(n) == (n * (100 - VAL_FRACTION)) \div 100

\* OpenAI: the cell that splits the rows by episode; it can be run again on
\* the same df.  The last print divides by len(df).
OpenAISplitCell ==
    /\ recipe = "openai"
    /\ pc \in {"transformed", "split"}
    /\ split_runs < MaxSplitRuns
    /\ split_runs' = split_runs + 1
    /\ LET ids == unique(df, <<>>)
           n == Len(ids)
       IN \E p \in shuffle(n) :
            LET unique_episode_ids == [k \in 1..n |-> ids[p[k]]]
                train_episode_ids == SubSeq(unique_episode_ids, 1, split_index(n))
                val_episode_ids == SubSeq(unique_episode_ids, split_index(n) + 1, n)
            IN /\ train_df' = isin(df, train_episode_ids)
               /\ val_df' = isin(df, val_episode_ids)
    /\ IF Len(df) = 0
       THEN error' = Str("ZeroDivisionError") /\ pc' = "failed"
       ELSE error' = error /\ pc' = "split"
    /\ UNCHANGED <<job_vars, config, metric, store, issued, VAL_FRACTION, recipe, DROP_INVALID_MESSAGES, function_type, variant,
                   queried, df, warnings, dataset, call, ret>>

\* OpenAI: the cell that writes and uploads the training and the validation file.
OpenAIUploadCell ==
    /\ recipe = "openai"
    /\ pc = "split"
    /\ dataset' = [written |-> TRUE, files |-> <<lines(train_df), lines(val_df)>>]
    /\ pc' = "written"
    /\ UNCHANGED <<job_vars, config, metric, store, issued, VAL_FRACTION, split_runs, recipe, DROP_INVALID_MESSAGES, function_type, variant, queried, df,
                   warnings, train_df, val_df, error, call, ret>>

\* The configurations a run may start from.
Configurations ==
    /\ recipe \in {"fireworks", "openai"}
    /\ DROP_INVALID_MESSAGES \in (IF recipe = "fireworks" THEN BOOLEAN ELSE {TRUE})
    /\ function_type \in {"chat", "json"}
    /\ variant \in {{"model", "assistant_template", "user_template"},
                    {"model", "assistant_template", "system_template", "user_template"}}

NoDataset == [written |-> FALSE, files |-> <<>>]

NoCall == [fn |-> "none"]

\* Before the job cells: no job was created, nothing is bound.
NoJob ==
    /\ job = None
    /\ job_status = None
    /\ printed = 0
    /\ fine_tuned_model = None
    /\ model_config = None
    /\ full_variant_config = None

\* The state after the configuration cells.
Init ==
    /\ Configurations
    /\ pc = "configured"
    /\ queried = <<>>
    /\ df = <<>>
    /\ warnings = <<>>
    /\ train_df = <<>>
    /\ val_df = <<>>
    /\ dataset = NoDataset
    /\ error = None
    /\ metric = DefaultMetric
    /\ config = Loaded
    /\ store = NoStore
    /\ issued = 0
    /\ VAL_FRACTION = VAL_PERCENT
    /\ split_runs = 0
    /\ NoJob
    /\ call = NoCall
    /\ ret = None

Next ==
    \/ QueryCell
    \/ TransformCell
    \/ FireworksDatasetCell
    \/ OpenAISplitCell
    \/ OpenAIUploadCell

Spec == Init /\ [][Next]_vars

\* ------------------------------------------- the rendering functions alone

\* The chat outputs given to render_output.
Outputs ==
    IF function_type = "json" THEN JsonOutputs
    ELSE {List(o) : o \in SeqsUpTo(OutputBlocks, MaxBlocks)}

\* A call render_message(message) or render_output(output) is about to be made.
InitRender ==
    /\ Configurations
    /\ "system_template" \in variant
    /\ pc = "call"
    /\ queried = <<>>
    /\ df = <<>>
    /\ warnings = <<>>
    /\ train_df = <<>>
    /\ val_df = <<>>
    /\ dataset = NoDataset
    /\ error = None
    /\ metric = DefaultMetric
    /\ config = Loaded
    /\ store = NoStore
    /\ issued = 0
    /\ VAL_FRACTION = VAL_PERCENT
    /\ split_runs = 0
    /\ NoJob
    /\ \/ call \in {[fn |-> "render_message", arg |-> m] : m \in Messages}
       \/ call \in {[fn |-> "render_output", arg |-> o] : o \in Outputs}
    /\ ret = None

\* What a call leaves: the value returned and the warnings emitted.
returns(r) ==
    /\ ret' = r.ret
    /\ warnings' = warnings \o r.warnings

CallRenderMessage ==
    /\ pc = "call"
    /\ call.fn = "render_message"
    /\ returns(render_message(call.arg))
    /\ pc' = "returned"
    /\ UNCHANGED <<job_vars, config, metric, store, issued, VAL_FRACTION, split_runs, recipe, DROP_INVALID_MESSAGES, function_type, variant, queried, df,
                   train_df, val_df, dataset, error, call>>

CallRenderOutput ==
    /\ pc = "call"
    /\ call.fn = "render_output"
    /\ returns(render_output(call.arg))
    /\ pc' = "returned"
    /\ UNCHANGED <<job_vars, config, metric, store, issued, VAL_FRACTION, split_runs, recipe, DROP_INVALID_MESSAGES, function_type, variant, queried, df,
                   train_df, val_df, dataset, error, call>>

NextRender ==
    \/ CallRenderMessage
    \/ CallRenderOutput

SpecRender == InitRender /\ [][NextRender]_vars

\* ------------------------------------------------ runs over several rows

\* A stored input of one user message with a text block.
GoodInput == Json([messages |-> <<[role |-> "user", content |-> <<TextBlock>>]>>])

\* A stored input with system data and a user message of a tool result and text.
ToolInput ==
    Json([system |-> Dict([q |-> "s"]),
          messages |-> <<[role |-> "user",
                          content |-> <<ToolResultBlock("t1", "42"), RawTextBlock>>]>>])

\* A chat output of one text block, and one of a block of an unknown type.
OkTurn == Json(List(<<OutputTextBlock>>))

ImageTurn == Json(List(<<ImageBlock>>))

\* What the rows of SpecRows hold in their input and in their assistant-turn
\* column.
RowPayloads ==
    {[input |-> GoodInput, turn |-> OkTurn],
     [input |-> ToolInput, turn |-> OkTurn],
     [input |-> GoodInput, turn |-> ImageTurn],
     [input |-> Malformed, turn |-> OkTurn]}

\* The episodes the rows of SpecRows belong to.
RowEpisodeIds == {"e" \o ToString(k) : k \in 1..MaxRows}

\* The values of VAL_FRACTION tried, in percent.
ValFractions == {0, 20, 50, 100}

\* The query cell with a result of up to MaxRows rows.
QueryRowsCell ==
    /\ pc = "configured"
    /\ \E n \in 0..MaxRows :
         \E payload \in [1..n -> RowPayloads] :
           \E episode_id \in [1..n -> RowEpisodeIds] :
             df' = [k \in 1..n |->
                      Row(k - 1, payload[k].input, payload[k].turn, episode_id[k])]
    /\ queried' = df'
    /\ pc' = "queried"
    /\ issued' = issued + 1
    /\ UNCHANGED <<job_vars, config, metric, store, VAL_FRACTION, split_runs, recipe, DROP_INVALID_MESSAGES,
                   function_type, variant, warnings, train_df, val_df, dataset,
                   error, call, ret>>

\* The state after the configuration cells of a chat function whose variant has
\* a system template.
InitRows ==
    /\ recipe \in {"fireworks", "openai"}
    /\ DROP_INVALID_MESSAGES \in (IF recipe = "fireworks" THEN BOOLEAN ELSE {TRUE})
    /\ function_type = "chat"
    /\ variant = {"model", "assistant_template", "system_template", "user_template"}
    /\ pc = "configured"
    /\ queried = <<>>
    /\ df = <<>>
    /\ warnings = <<>>
    /\ train_df = <<>>
    /\ val_df = <<>>
    /\ dataset = NoDataset
    /\ error = None
    /\ metric = DefaultMetric
    /\ config = Loaded
    /\ store = NoStore
    /\ issued = 0
    /\ VAL_FRACTION \in (IF recipe = "openai" THEN ValFractions ELSE {VAL_PERCENT})
    /\ split_runs = 0
    /\ NoJob
    /\ call = NoCall
    /\ ret = None

NextRows ==
    \/ QueryRowsCell
    \/ TransformCell
    \/ FireworksDatasetCell
    \/ OpenAISplitCell
    \/ OpenAIUploadCell

SpecRows == InitRows /\ [][NextRows]_vars

\* --------------------------------------------- the query over the tables

MaxFeedback == 3

\* A row of the inference table.
Inference(id, episode_id, function_name, input) ==
    [id |-> id, episode_id |-> episode_id, function_name |-> function_name,
     variant_name |-> "v", input |-> input, output |-> OkTurn]

\* The inference tables tried: one inference; two of one episode; two of two
\* episodes; one of another function before one of the function.
InferenceTables ==
    {<<Inference("i1", "e1", FUNCTION_NAME, GoodInput)>>,
     <<Inference("i1", "e1", FUNCTION_NAME, GoodInput),
       Inference("i2", "e1", FUNCTION_NAME, ToolInput)>>,
     <<Inference("i1", "e1", FUNCTION_NAME, GoodInput),
       Inference("i3", "e2", FUNCTION_NAME, ToolInput)>>,
     <<Inference("i4", "e2", "other_function", ToolInput),
       Inference("i1", "e1", FUNCTION_NAME, GoodInput)>>}

\* The times of the feedback rows.
Timestamps == {1, 2}

\* The rows a feedback table can hold about the inferences of a table: metric
\* feedback (OpenAI) on the join key's values, in percent, under the metric's
\* name or another; demonstrations (Fireworks) on the inference ids.
FeedbackRows(inference) ==
    LET target_ids == {join_value(inference[k]) : k \in 1..Len(inference)}
    IN IF recipe = "fireworks" THEN
           {[target_id |-> t, metric_name |-> "demonstration", value |-> v,
             timestamp |-> ts] :
                t \in target_ids, v \in {OkTurn, ImageTurn}, ts \in Timestamps}
       ELSE
           {[target_id |-> t, metric_name |-> m, value |-> v, timestamp |-> ts] :
                t \in target_ids, m \in {METRIC_NAME, "other_metric"},
                v \in (IF metric.type = "float" THEN {30, 70} ELSE {0, 100}),
                ts \in Timestamps}

\* The stores tried: an inference table and up to MaxFeedback feedback rows.
Stores ==
    UNION {{[inference |-> inference, feedback |-> feedback] :
                feedback \in {fb \in SUBSET FeedbackRows(inference) :
                                  Cardinality(fb) <= MaxFeedback}} :
           inference \in InferenceTables}

\* The metrics a configuration that passes the configuration cells can name.
Metrics ==
    IF recipe = "fireworks" THEN {None}
    ELSE [type : {"float", "boolean"}, level : {"episode", "inference"},
          optimize : {"max", "min"}]

\* The query cell, its result computed from the tables of the store.  OpenAI:
\* the cell first asserts that the metric says which way to optimize.
QueryStoreCell ==
    /\ pc = "configured"
    /\ IF recipe = "openai" /\ "optimize" \notin DOMAIN metric
       THEN /\ error' = Str("AssertionError")
            /\ pc' = "failed"
            /\ UNCHANGED <<df, queried, issued>>
       ELSE /\ \E rn1 \in first_rows(store.feedback) :
                 df' = limit(join(store.inference, 1, rn1, <<>>))
            /\ queried' = df'
            /\ issued' = issued + 1
            /\ pc' = "queried"
            /\ error' = error
    /\ UNCHANGED <<job_vars, config, metric, store, VAL_FRACTION, split_runs, recipe,
                   DROP_INVALID_MESSAGES, function_type, variant, warnings,
                   train_df, val_df, dataset, call, ret>>

\* The state after the configuration cells, over a store.
InitQuery ==
    /\ recipe \in {"fireworks", "openai"}
    /\ DROP_INVALID_MESSAGES \in (IF recipe = "fireworks" THEN BOOLEAN ELSE {TRUE})
    /\ function_type = "chat"
    /\ variant = {"model", "assistant_template", "system_template", "user_template"}
    /\ pc = "configured"
    /\ queried = <<>>
    /\ df = <<>>
    /\ warnings = <<>>
    /\ train_df = <<>>
    /\ val_df = <<>>
    /\ dataset = NoDataset
    /\ error = None
    /\ metric \in Metrics
    /\ config = Loaded
    /\ store \in Stores
    /\ issued = 0
    /\ VAL_FRACTION = VAL_PERCENT
    /\ split_runs = 0
    /\ NoJob
    /\ call = NoCall
    /\ ret = None

NextQuery ==
    \/ QueryStoreCell
    \/ TransformCell

SpecQuery == InitQuery /\ [][NextQuery]_vars

\* ------------------------------------------------- the configuration cells

\* What a cell that fails leaves: the exception, and no later cell runs.
raises(exception) ==
    /\ error' = Str(exception)
    /\ pc' = "failed"

\* OpenAI: the cell that retrieves the metric configuration.
MetricCell ==
    /\ recipe = "openai"
    /\ pc = "loaded"
    /\ IF MetricTables[1] \notin config.tables \/ MetricTables[2] \notin config.tables
       THEN /\ raises("AssertionError")
            /\ metric' = metric
       ELSE /\ metric' = config.metric
            /\ pc' = "metric"
            /\ error' = error
    /\ UNCHANGED <<job_vars, config, store, issued, VAL_FRACTION, split_runs, recipe,
                   DROP_INVALID_MESSAGES, function_type, variant, queried, df,
                   warnings, train_df, val_df, dataset, call, ret>>

\* The cell that retrieves the function's type and the variant.
FunctionCell ==
    /\ pc = (IF recipe = "openai" THEN "metric" ELSE "loaded")
    /\ IF \E k \in 1..4 : FunctionTables[k] \notin config.tables
       THEN /\ raises("AssertionError")
            /\ UNCHANGED <<function_type, variant>>
       ELSE /\ function_type' = config.function_type
            /\ variant' = config.variant
            /\ pc' = "function"
            /\ error' = error
    /\ UNCHANGED <<job_vars, config, metric, store, issued, VAL_FRACTION, split_runs, recipe,
                   DROP_INVALID_MESSAGES, queried, df, warnings, train_df, val_df,
                   dataset, call, ret>>

\* The cell that reads the templates the variant names: see templates.
TemplatesCell ==
    /\ pc = "function"
    /\ pc' = "templates"
    /\ UNCHANGED <<job_vars, config, metric, store, issued, VAL_FRACTION, split_runs, recipe,
                   DROP_INVALID_MESSAGES, function_type, variant, queried, df,
                   warnings, train_df, val_df, dataset, error, call, ret>>

\* The cell that determines the inference table of the function.
InferenceTableCell ==
    /\ pc = "templates"
    /\ IF inference_table_name = None
       THEN raises("ValueError")
       ELSE /\ pc' = (IF recipe = "openai" THEN "inference_table" ELSE "configured")
            /\ error' = error
    /\ UNCHANGED <<job_vars, config, metric, store, issued, VAL_FRACTION, split_runs, recipe,
                   DROP_INVALID_MESSAGES, function_type, variant, queried, df,
                   warnings, train_df, val_df, dataset, call, ret>>

\* OpenAI: the cell that determines the feedback table of the metric.
FeedbackTableCell ==
    /\ recipe = "openai"
    /\ pc = "inference_table"
    /\ IF feedback_table_name = None
       THEN raises("ValueError")
       ELSE /\ pc' = "feedback_table"
            /\ error' = error
    /\ UNCHANGED <<job_vars, config, metric, store, issued, VAL_FRACTION, split_runs, recipe,
                   DROP_INVALID_MESSAGES, function_type, variant, queried, df,
                   warnings, train_df, val_df, dataset, call, ret>>

\* OpenAI: the cell that determines the join key of the metric.
JoinKeyCell ==
    /\ recipe = "openai"
    /\ pc = "feedback_table"
    /\ IF inference_join_key = None
       THEN raises("ValueError")
       ELSE /\ pc' = "configured"
            /\ error' = error
    /\ UNCHANGED <<job_vars, config, metric, store, issued, VAL_FRACTION, split_runs, recipe,
                   DROP_INVALID_MESSAGES, function_type, variant, queried, df,
                   warnings, train_df, val_df, dataset, call, ret>>

\* The entries a [metrics.exact_match] table can have.
MetricEntries ==
    [type : {"float", "boolean", "comment"},
     level : {"episode", "inference", "session"}, optimize : {"max", "min"}]
    \cup [type : {"float", "boolean", "comment"},
          level : {"episode", "inference", "session"}]

\* The variants a [functions.extract_entities.variants.gpt_4o_mini] table can
\* be: with a system template and without one.
VariantEntries ==
    {{"model", "assistant_template", "user_template"},
     {"model", "assistant_template", "system_template", "user_template"}}

\* The configuration files tried: each chain of tables cut at any depth; a
\* function of a type the store has a table for or of another; a metric of any
\* entry.  The cells read an entry only after they found its table.
Configs ==
    {[tables |-> Tables(FunctionTables, f) \cup Tables(MetricTables, m),
      function_type |-> t, variant |-> v, metric |-> e] :
        f \in 0..4, m \in 0..2, t \in {"chat", "json", "embedding"},
        v \in VariantEntries, e \in MetricEntries}

\* The store of the runs that start at the configuration file: one inference of
\* the function with feedback that every join key finds.
ConfigStore ==
    [inference |-> <<Inference("i1", "e1", FUNCTION_NAME, GoodInput)>>,
     feedback |->
        IF recipe = "fireworks" THEN
            {[target_id |-> "i1", metric_name |-> "demonstration",
              value |-> OkTurn, timestamp |-> 1]}
        ELSE
            {[target_id |-> t, metric_name |-> METRIC_NAME, value |-> 100,
              timestamp |-> 1] : t \in {"i1", "e1"}}]

\* The state after the cell that loads the configuration file.  The names the
\* later cells bind are unbound.
InitConfig ==
    /\ recipe \in {"fireworks", "openai"}
    /\ DROP_INVALID_MESSAGES \in (IF recipe = "fireworks" THEN BOOLEAN ELSE {TRUE})
    /\ config \in Configs
    /\ recipe = "fireworks" => config.tables \cap Tables(MetricTables, 2) = {}
    /\ function_type = "unbound"
    /\ variant = {}
    /\ metric = None
    /\ pc = "loaded"
    /\ queried = <<>>
    /\ df = <<>>
    /\ warnings = <<>>
    /\ train_df = <<>>
    /\ val_df = <<>>
    /\ dataset = NoDataset
    /\ error = None
    /\ store = ConfigStore
    /\ issued = 0
    /\ VAL_FRACTION = VAL_PERCENT
    /\ split_runs = 0
    /\ NoJob
    /\ call = NoCall
    /\ ret = None

\* The cell that opens the connection to the store changes nothing of the
\* state.
NextConfig ==
    \/ MetricCell
    \/ FunctionCell
    \/ TemplatesCell
    \/ InferenceTableCell
    \/ FeedbackTableCell
    \/ JoinKeyCell
    \/ QueryStoreCell

SpecConfig == InitConfig /\ [][NextConfig]_vars

\* ------------------------------------------------------ the fine-tuning job

\* Polls of one run that raise an exception.
MaxPollErrors == 2

\* The states the provider reports for a job, in the words of the recipe:
\* one that is not final, and the three final ones.
Running == IF recipe = "fireworks" THEN "JOB_STATE_RUNNING" ELSE "running"

Succeeded == IF recipe = "fireworks" THEN "JOB_STATE_COMPLETED" ELSE "succeeded"

Failed == IF recipe = "fireworks" THEN "JOB_STATE_FAILED" ELSE "failed"

Cancelled == IF recipe = "fireworks" THEN "JOB_STATE_CANCELLED" ELSE "cancelled"

Terminal == {Succeeded, Failed, Cancelled}

\* The job the launch cell creates; model is the name the provider gives the
\* model the job trains.
NewJob == [state |-> Running, model |-> "ft-1"]

\* What the provider answers to a poll of job j: the job's state and the
\* model it produced.  OpenAI: fine_tuned_model is null until the job has
\* succeeded.  Fireworks: the "State:" and the "Output Model:" line of stdout.
retrieve(j) ==
    [status |-> j.state,
     model |-> IF recipe = "fireworks" \/ j.state = Succeeded
               THEN Str(j.model) ELSE None]

\* Fireworks: the stdout of a firectl call that failed.
EmptyOutput == [status |-> "", model |-> None]

\* Fireworks: the name "firectl get model" prints for a model.
get_model_identifier(model_id) == "accounts/a/models/" \o model_id

\* The run is in the polling loop.
Polling == pc \in {"launched", "polling"}

\* Fireworks: the tests on stdout that end an iteration of the polling loop.
fireworks_loop_tests(stdout) ==
    IF stdout = None THEN raises("NameError")
    ELSE IF stdout.status = Failed THEN raises("ValueError")
    ELSE /\ pc' = IF stdout.status = Succeeded THEN "polled" ELSE "polling"
         /\ error' = error

\* OpenAI: the test on the status that ends the polling loop.
openai_loop_test(status) ==
    /\ pc' = IF status \in {Succeeded, Failed, Cancelled} THEN "polled" ELSE "polling"
    /\ error' = error

\* The cell that launches the fine-tuning job.  Fireworks: firectl may exit
\* with a code other than 0; then stderr is printed and neither stdout nor
\* job_id is bound.
LaunchCell ==
    /\ pc = "written"
    /\ pc' = "launched"
    /\ \/ /\ job' = NewJob
          /\ job_status' = IF recipe = "fireworks" THEN retrieve(NewJob) ELSE job_status
       \/ /\ recipe = "fireworks"
          /\ UNCHANGED <<job, job_status>>
    /\ UNCHANGED <<printed, fine_tuned_model, model_config, full_variant_config,
                   config, metric, store, issued, VAL_FRACTION, split_runs, recipe,
                   DROP_INVALID_MESSAGES, function_type, variant, queried, df,
                   warnings, train_df, val_df, dataset, error, call, ret>>

\* The provider: a job that runs reaches one of its final states.
JobAdvances ==
    /\ job # None
    /\ job.state = Running
    /\ \E state \in Terminal : job' = [job EXCEPT !.state = state]
    /\ UNCHANGED <<job_status, printed, fine_tuned_model, model_config,
                   full_variant_config, config, metric, store, issued, VAL_FRACTION,
                   split_runs, recipe, DROP_INVALID_MESSAGES, function_type, variant,
                   pc, queried, df, warnings, train_df, val_df, dataset, error,
                   call, ret>>

\* An iteration of the polling loop whose poll is answered.
PollSucceeds ==
    /\ Polling
    /\ job # None
    /\ job_status' = retrieve(job)
    /\ IF recipe = "fireworks"
       THEN fireworks_loop_tests(retrieve(job))
       ELSE openai_loop_test(retrieve(job).status)
    /\ UNCHANGED <<job, printed, fine_tuned_model, model_config, full_variant_config,
                   config, metric, store, issued, VAL_FRACTION, split_runs, recipe,
                   DROP_INVALID_MESSAGES, function_type, variant, queried, df,
                   warnings, train_df, val_df, dataset, call, ret>>

\* Fireworks: an iteration whose firectl call exits with an error: no
\* exception, stdout is empty.
PollFails ==
    /\ Polling
    /\ recipe = "fireworks"
    /\ job # None
    /\ job_status' = EmptyOutput
    /\ fireworks_loop_tests(EmptyOutput)
    /\ UNCHANGED <<job, printed, fine_tuned_model, model_config, full_variant_config,
                   config, metric, store, issued, VAL_FRACTION, split_runs, recipe,
                   DROP_INVALID_MESSAGES, function_type, variant, queried, df,
                   warnings, train_df, val_df, dataset, call, ret>>

\* An iteration whose poll raises an exception: "Error: ..." is printed.
\* OpenAI: the test of the status is inside the try and is skipped.
\* Fireworks: the tests follow the try and read the stdout of before; with
\* job_id unbound every poll raises.
PollRaises ==
    /\ Polling
    /\ printed < MaxPollErrors
    /\ printed' = printed + 1
    /\ IF recipe = "fireworks"
       THEN fireworks_loop_tests(job_status)
       ELSE pc' = "polling" /\ error' = error
    /\ UNCHANGED <<job, job_status, fine_tuned_model, model_config,
                   full_variant_config, config, metric, store, issued, VAL_FRACTION,
                   split_runs, recipe, DROP_INVALID_MESSAGES, function_type, variant,
                   queried, df, warnings, train_df, val_df, dataset, call, ret>>

\* Fireworks: model_id = get_model_id(stdout), the "Output Model:" line.
ModelIdCell ==
    /\ recipe = "fireworks"
    /\ pc = "polled"
    /\ IF job_status.model = None
       THEN raises("ValueError") /\ fine_tuned_model' = fine_tuned_model
       ELSE /\ fine_tuned_model' = job_status.model
            /\ pc' = "model_id"
            /\ error' = error
    /\ UNCHANGED <<job, job_status, printed, model_config, full_variant_config,
                   config, metric, store, issued, VAL_FRACTION, split_runs, recipe,
                   DROP_INVALID_MESSAGES, function_type, variant, queried, df,
                   warnings, train_df, val_df, dataset, call, ret>>

\* Fireworks: the cell that deploys the model; stdout is rebound when firectl
\* exits with 0, and stderr is printed otherwise.
DeployCell ==
    /\ recipe = "fireworks"
    /\ pc = "model_id"
    /\ pc' = "deployed"
    /\ job_status' \in {EmptyOutput, job_status}
    /\ UNCHANGED <<job, printed, fine_tuned_model, model_config, full_variant_config,
                   config, metric, store, issued, VAL_FRACTION, split_runs, recipe,
                   DROP_INVALID_MESSAGES, function_type, variant, queried, df,
                   warnings, train_df, val_df, dataset, error, call, ret>>

\* Fireworks: model_identifier = get_model_identifier(model_id).
ModelIdentifierCell ==
    /\ recipe = "fireworks"
    /\ pc = "deployed"
    /\ fine_tuned_model' = Str(get_model_identifier(fine_tuned_model.str))
    /\ pc' = "model_identifier"
    /\ UNCHANGED <<job, job_status, printed, model_config, full_variant_config,
                   config, metric, store, issued, VAL_FRACTION, split_runs, recipe,
                   DROP_INVALID_MESSAGES, function_type, variant, queried, df,
                   warnings, train_df, val_df, dataset, error, call, ret>>

\* print(toml.dumps(...)) of a configuration keyed by name: the library is not
\* part of the repository; for a key that is None it either prints or raises.
prints(name, done) ==
    \/ pc' = done /\ error' = error
    \/ name = None /\ raises("KeyError")

\* The cell that builds and prints the model configuration.  OpenAI: the
\* cell first reads fine_tuned_model off the last job_status.
ModelConfigCell ==
    /\ pc = (IF recipe = "fireworks" THEN "model_identifier" ELSE "polled")
    /\ fine_tuned_model' = IF recipe = "fireworks" THEN fine_tuned_model
                           ELSE job_status.model
    /\ model_config' = [models |-> fine_tuned_model', routing |-> <<recipe>>,
                        type |-> recipe, model_name |-> fine_tuned_model']
    /\ prints(fine_tuned_model', "model_config")
    /\ UNCHANGED <<job, job_status, printed, full_variant_config,
                   config, metric, store, issued, VAL_FRACTION, split_runs, recipe,
                   DROP_INVALID_MESSAGES, function_type, variant, queried, df,
                   warnings, train_df, val_df, dataset, call, ret>>

\* The cell that builds and prints the variant configuration: the variant of
\* the fine-tuned model, with the templates of the variant it was trained on.
VariantConfigCell ==
    /\ pc = "model_config"
    /\ full_variant_config' =
          [function |-> FUNCTION_NAME, variant |-> fine_tuned_model,
           type |-> "chat_completion", weight |-> 0, model |-> fine_tuned_model,
           templates |-> variant \cap {"system_template", "user_template",
                                       "assistant_template"}]
    /\ prints(fine_tuned_model, "variant_config")
    /\ UNCHANGED <<job, job_status, printed, fine_tuned_model, model_config,
                   config, metric, store, issued, VAL_FRACTION, split_runs, recipe,
                   DROP_INVALID_MESSAGES, function_type, variant, queried, df,
                   warnings, train_df, val_df, dataset, call, ret>>

\* The state after the query cell returned one row of a chat function, a user
\* text and the assistant's text.
InitJob ==
    /\ Configurations
    /\ function_type = "chat"
    /\ pc = "queried"
    /\ queried = <<Row(0, GoodInput, OkTurn, "e1")>>
    /\ df = queried
    /\ warnings = <<>>
    /\ train_df = <<>>
    /\ val_df = <<>>
    /\ dataset = NoDataset
    /\ error = None
    /\ metric = DefaultMetric
    /\ config = Loaded
    /\ store = NoStore
    /\ issued = 1
    /\ VAL_FRACTION = VAL_PERCENT
    /\ split_runs = 0
    /\ NoJob
    /\ call = NoCall
    /\ ret = None

NextJob ==
    \/ TransformCell
    \/ FireworksDatasetCell
    \/ OpenAISplitCell
    \/ OpenAIUploadCell
    \/ LaunchCell
    \/ JobAdvances
    \/ PollSucceeds
    \/ PollFails
    \/ PollRaises
    \/ ModelIdCell
    \/ DeployCell
    \/ ModelIdentifierCell
    \/ ModelConfigCell
    \/ VariantConfigCell

SpecJob == InitJob /\ [][NextJob]_vars

\* The notebook keeps running and the provider answers: an iteration of the
\* loop whose poll is answered is taken if it stays possible.
SpecJobFair == SpecJob /\ WF_vars(PollSucceeds)

\* --------------------------------------------------- properties of the rows

\* The transform cell ran to its end: every row function returned.
Transformed ==
    \/ pc \in {"transformed", "split", "written"}
    \/ pc = "failed" /\ error = Str("ZeroDivisionError")

\* The rows of the data frames derived from the query.
KeptRows == {df[k] : k \in 1..Len(df)}
             \cup {train_df[k] : k \in 1..Len(train_df)}
             \cup {val_df[k] : k \in 1..Len(val_df)}

\* The lines of the files written for the provider.
WrittenLines ==
    UNION {{dataset.files[f][k] : k \in 1..Len(dataset.files[f])} :
              f \in 1..Len(dataset.files)}

\* The messages of a queried row's stored input.
InputMessages(row) == row.input.json.messages

\* The normalizer signals the drop for an input message of the row.
InputDrops(row) ==
    \E k \in 1..Len(InputMessages(row)) :
        render_message(InputMessages(row)[k]).ret = None

\* The normalizer signals the drop for the output of the row.
OutputDrops(row) ==
    /\ "json" \in DOMAIN output_column(row)
    /\ render_output(output_column(row).json).ret = None

\* The example ex holds the messages ms as a run of consecutive messages.
HoldsRun(ex, ms) ==
    \E s \in 0..(Len(ex) - Len(ms)) : \A k \in 1..Len(ms) : ex[s + k] = ms[k]

\* The example ex holds the normalized form of every input message of the row,
\* and the row's output message after them.
Complete(row, ex) ==
    /\ ~InputDrops(row)
    /\ ~OutputDrops(row)
    /\ \A k \in 1..Len(InputMessages(row)) :
          HoldsRun(ex, render_message(InputMessages(row)[k]).ret.list)
    /\ Len(ex) > 0
    /\ ex[Len(ex)] = render_output(output_column(row).json).ret

\* C1: all-or-nothing assembly.  Once the row function has returned for every
\* row, a row for which an input message or the output signalled the drop has
\* no row in the data frame or its splits; every other row has one, and every
\* kept row and every written line is the complete example of a queried row:
\* it holds the normalized form of every input message and, last, the output
\* message.  No partial example exists.
C1_AllOrNothing ==
    Transformed =>
        /\ \A i \in 1..Len(queried) :
              IF InputDrops(queried[i]) \/ OutputDrops(queried[i])
              THEN \A r \in KeptRows : r.index # queried[i].index
              ELSE \E k \in 1..Len(df) : df[k].index = queried[i].index
        /\ \A r \in KeptRows :
              \E i \in 1..Len(queried) :
                  /\ queried[i].index = r.index
                  /\ Complete(queried[i], messages_of(r).messages)
        /\ \A line \in WrittenLines :
              \E i \in 1..Len(queried) : Complete(queried[i], line.messages)

\* C1 witness: the dataset is written after a row was dropped whose first input
\* message had been normalized to a message when a later one signalled the drop.
C1_Witness ==
    /\ pc = "written"
    /\ Len(queried) = 1
    /\ Len(InputMessages(queried[1])) = 2
    /\ render_message(InputMessages(queried[1])[1]).ret # None
    /\ render_message(InputMessages(queried[1])[1]).ret.list # <<>>
    /\ render_message(InputMessages(queried[1])[2]).ret = None
    /\ df = <<>>
    /\ WrittenLines = {}

\* The messages the first n input messages are normalized to, together.
RECURSIVE RenderedCount(_, _)
RenderedCount(messages, n) ==
    IF n = 0 THEN 0
    ELSE RenderedCount(messages, n - 1) + Len(render_message(messages[n]).ret.list)

\* The example ex is in the order: a system message or none, the normalized
\* input messages in the order of the source, the output message.
InOrder(row, ex) ==
    LET messages == InputMessages(row)
        p == IF Len(ex) > 0 /\ ex[1].role = "system" THEN 1 ELSE 0
    IN /\ \A k \in 2..Len(ex) : ex[k].role # "system"
       /\ Len(ex) = p + RenderedCount(messages, Len(messages)) + 1
       /\ \A i \in 1..Len(messages) :
             \A k \in 1..Len(render_message(messages[i]).ret.list) :
                 ex[p + RenderedCount(messages, i - 1) + k]
                     = render_message(messages[i]).ret.list[k]
       /\ ex[Len(ex)].role = "assistant"
       /\ ex[Len(ex)] = render_output(output_column(row).json).ret

\* C2: message order.  In every example of a kept row and in every written
\* line, a system message is at index 0 and nowhere else, the normalized input
\* messages follow in the order of the source, and exactly one output message
\* of role assistant is last.
C2_MessageOrder ==
    Transformed =>
        /\ \A r \in KeptRows :
              \E i \in 1..Len(queried) :
                  /\ queried[i].index = r.index
                  /\ InOrder(queried[i], messages_of(r).messages)
        /\ \A line \in WrittenLines :
              \E i \in 1..Len(queried) : InOrder(queried[i], line.messages)

\* C2 witness: a written example with a system message, a user message, an
\* assistant message of the input and the output message, in this order.
C2_Witness ==
    /\ pc = "written"
    /\ \E line \in WrittenLines :
          /\ Len(line.messages) = 4
          /\ line.messages[1].role = "system"
          /\ line.messages[2].role = "user"
          /\ line.messages[3].role = "assistant"
          /\ Len(InputMessages(queried[1])) = 2

\* ------------------------------------- properties of the rendering functions

\* render_message returned a list of messages.
MessageRendered == pc = "returned" /\ call.fn = "render_message" /\ ret # None

\* render_output returned the message of a chat output.
ChatOutputRendered ==
    pc = "returned" /\ call.fn = "render_output" /\ function_type = "chat" /\ ret # None

\* The content blocks a call was given: those of the message, or of the chat
\* output.
BlocksOf(c) == IF c.fn = "render_message" THEN c.arg.content ELSE c.arg.list

\* The role of the message a call builds from them.
RoleOf(c) == IF c.fn = "render_message" THEN c.arg.role ELSE "assistant"

IsToolResult(block) == block.type = "tool_result"

\* A block that contributes text to the message: text, raw_text or thought.
IsTextBearing(block) == block.type \in {"text", "raw_text", "thought"}

\* The positions of the messages of role r in a list of messages.
Positions(messages, r) == {k \in 1..Len(messages) : messages[k].role = r}

\* C3: tool results before the user text.  When render_message returns the
\* messages of a user message, whatever the order of its blocks, every
\* tool_result block has its tool-role message in the list and every tool-role
\* message stands before the user-role message.
C3_ToolResultsFirst ==
    MessageRendered /\ call.arg.role = "user" =>
        /\ Cardinality(Positions(ret.list, "tool"))
              = Len(SelectSeq(call.arg.content, IsToolResult))
        /\ \A i \in Positions(ret.list, "tool") :
              \A j \in Positions(ret.list, "user") : i < j

\* C3 witness: a user message whose text block precedes its tool_result block
\* was rendered to the tool message followed by the user message.
C3_Witness ==
    /\ MessageRendered
    /\ call.arg.role = "user"
    /\ Len(call.arg.content) = 2
    /\ IsTextBearing(call.arg.content[1])
    /\ IsToolResult(call.arg.content[2])
    /\ Len(ret.list) = 2
    /\ ret.list[1].role = "tool"
    /\ ret.list[2].role = "user"

\* C4: Fireworks with DROP_INVALID_MESSAGES = False.  A user message made of n
\* tool_result blocks and at least one text-bearing block is rendered to
\* exactly n + 1 messages: the n tool messages in the order of the source, each
\* with the block's id as tool_call_id and its result as content, then one
\* user-role message whose content is a string.  The message [raw_text "Hi",
\* tool_result t1 "42"] is rendered to the tool message (t1, "42") followed by
\* the user message "Hi".
C4_ToolResultsThenUser ==
    /\ recipe = "fireworks"
    /\ ~DROP_INVALID_MESSAGES
    /\ pc = "returned"
    /\ call.fn = "render_message"
    /\ call.arg.role = "user"
    /\ \A k \in 1..Len(call.arg.content) :
          IsToolResult(call.arg.content[k]) \/ IsTextBearing(call.arg.content[k])
    /\ \E k \in 1..Len(call.arg.content) : IsTextBearing(call.arg.content[k])
    => LET results == SelectSeq(call.arg.content, IsToolResult)
           n == Len(results)
       IN /\ ret # None
          /\ Len(ret.list) = n + 1
          /\ \A k \in 1..n :
                ret.list[k] = [role |-> "tool", tool_call_id |-> results[k].id,
                               content |-> Str(results[k].result)]
          /\ ret.list[n + 1].role = "user"
          /\ DOMAIN ret.list[n + 1] = {"role", "content"}
          /\ IsStr(ret.list[n + 1].content)
          /\ call.arg.content = <<RawTextBlock, ToolResultBlock("t1", "42")>> =>
                ret.list = <<[role |-> "tool", tool_call_id |-> "t1",
                              content |-> Str("42")],
                             [role |-> "user", content |-> Str("Hi")]>>

\* C4 witness: the message [raw_text "Hi", tool_result t1 "42"] was rendered
\* with DROP_INVALID_MESSAGES = False.
C4_Witness ==
    /\ recipe = "fireworks"
    /\ ~DROP_INVALID_MESSAGES
    /\ MessageRendered
    /\ call.arg = [role |-> "user",
                   content |-> <<RawTextBlock, ToolResultBlock("t1", "42")>>]
    /\ Len(ret.list) = 2

\* The text a text-bearing block contributes: the string of a text block, the
\* rendering of its structured value by the role's template, the raw text, the
\* thought between its delimiters.
BlockText(role, block) ==
    IF block.type = "thought" THEN "<think>" \o block.text \o "</think>"
    ELSE IF "text" \in DOMAIN block THEN block.text
    ELSE IF IsStr(block.value) THEN block.value.str
    ELSE render_template(role, block.value)

\* The texts of the text-bearing blocks of a call, in the order of the source.
TextsOf(c) ==
    LET blocks == SelectSeq(BlocksOf(c), IsTextBearing)
    IN [k \in 1..Len(blocks) |-> BlockText(RoleOf(c), blocks[k])]

\* The first n texts with one newline between each two.
RECURSIVE Joined(_, _)
Joined(texts, n) ==
    IF n = 1 THEN texts[1] ELSE Joined(texts, n - 1) \o "\n" \o texts[n]

\* The message a call built from the text-bearing blocks: the last one of
\* render_message's list, the one of render_output.
RoleMessage == IF call.fn = "render_message" THEN ret.list[Len(ret.list)] ELSE ret

\* C5: Fireworks joins with a newline.  For every input message and every chat
\* output that is not dropped and has text-bearing blocks, the content of the
\* emitted message is the blocks' texts in the order of the source with a single
\* newline between each two; with one text-bearing block it is that text.
C5_NewlineJoin ==
    /\ recipe = "fireworks"
    /\ MessageRendered \/ ChatOutputRendered
    /\ Len(TextsOf(call)) >= 1
    => /\ RoleMessage.role = RoleOf(call)
       /\ "content" \in DOMAIN RoleMessage
       /\ RoleMessage.content = Str(Joined(TextsOf(call), Len(TextsOf(call))))
       /\ Len(TextsOf(call)) = 1 => RoleMessage.content = Str(TextsOf(call)[1])

\* C5 witness: a Fireworks message of a raw_text block and a text block was
\* rendered to the content "Hi\nYo".
C5_Witness ==
    /\ recipe = "fireworks"
    /\ MessageRendered
    /\ call.arg.content = <<RawTextBlock, TextBlock>>
    /\ ret.list[1].content = Str("Hi\nYo")

\* The messages a returned call emitted: render_message's list, or the one
\* message of render_output.
Emitted ==
    IF pc # "returned" \/ ret = None THEN {}
    ELSE IF call.fn = "render_message" THEN {ret.list[k] : k \in 1..Len(ret.list)}
    ELSE {ret}

\* The content c is the sequence of the text parts of the call's text-bearing
\* blocks, one part per block in the order of the source.
IsPartsOf(c, content) ==
    /\ "list" \in DOMAIN content
    /\ Len(content.list) = Len(TextsOf(c))
    /\ \A k \in 1..Len(content.list) :
          content.list[k] = [type |-> "text", text |-> TextsOf(c)[k]]

\* C6 as stated: in the OpenAI recipe the content of every emitted user or
\* assistant message, of the input and of the output alike, is the sequence of
\* text parts of the text-bearing blocks and never a string; in the Fireworks
\* recipe the content of every emitted message is one string.
C6_AsStated ==
    \A m \in Emitted :
        "content" \in DOMAIN m =>
            IF recipe = "openai"
            THEN m.role \in {"user", "assistant"} =>
                    /\ ~IsStr(m.content)
                    /\ call.fn = "render_message" \/ function_type = "chat"
                    /\ IsPartsOf(call, m.content)
            ELSE IsStr(m.content)

\* C6: content policy.  The output message of a JSON function carries the raw
\* output string as its content in both recipes.  Every other user or assistant
\* message the OpenAI recipe emits with a content (an input message, the output
\* of a chat function) carries the sequence of text parts of the text-bearing
\* blocks, one per block in the order of the source, never a string; the
\* content of every message the Fireworks recipe emits is one string.
C6_ContentPolicy ==
    \A m \in Emitted :
        "content" \in DOMAIN m =>
            IF call.fn = "render_output" /\ function_type = "json"
            THEN m.content = Str(call.arg.dict.raw)
            ELSE IF recipe = "openai"
            THEN m.role \in {"user", "assistant"} =>
                    ~IsStr(m.content) /\ IsPartsOf(call, m.content)
            ELSE IsStr(m.content)

\* C6 witness: the OpenAI recipe rendered an assistant message of two
\* text-bearing blocks to a content of two text parts.
C6_Witness ==
    /\ recipe = "openai"
    /\ MessageRendered
    /\ call.arg.role = "assistant"
    /\ call.arg.content = <<ThoughtBlock, TemplatedTextBlock>>
    /\ ret.list = <<[role |-> "assistant",
                     content |-> List(<<[type |-> "text", text |-> "<think>Hm</think>"],
                                        [type |-> "text", text |-> "A:x"]>>)]>>

\* The block types the notebooks know.
KnownTypes == {"text", "raw_text", "thought", "tool_call", "tool_result"}

\* C9: unknown block types.  A call of render_message or of render_output (chat
\* function) whose blocks include one of a type outside the known five returns
\* the drop signal, in both recipes, with DROP_INVALID_MESSAGES set or not: the
\* block is never included and never skipped.
C9_UnknownTypeDrops ==
    /\ pc = "returned"
    /\ call.fn = "render_message" \/ function_type = "chat"
    /\ \E k \in 1..Len(BlocksOf(call)) : BlocksOf(call)[k].type \notin KnownTypes
    => ret = None

\* C9 witness: with DROP_INVALID_MESSAGES = False, a call whose blocks are a
\* text-bearing block followed by a block of an unknown type returned the drop
\* signal.
C9_Witness ==
    /\ recipe = "fireworks"
    /\ ~DROP_INVALID_MESSAGES
    /\ pc = "returned"
    /\ call.fn = "render_message" \/ function_type = "chat"
    /\ Len(BlocksOf(call)) = 2
    /\ IsTextBearing(BlocksOf(call)[1])
    /\ BlocksOf(call)[2].type \notin KnownTypes
    /\ ret = None

\* ------------------------------------------- properties of the drop policy

\* No example of the queried row was kept or written: after the transform no
\* data frame holds a row under its index, and every written line is the
\* example of a kept row.
NoExampleOf(row) ==
    /\ Transformed => \A r \in KeptRows : r.index # row.index
    /\ \A line \in WrittenLines :
          Transformed /\ \E r \in KeptRows : line = messages_of(r)

\* The input message has a block that is neither text nor raw_text.
HasNonTextBlock(message) ==
    \E b \in 1..Len(message.content) :
        message.content[b].type \notin {"text", "raw_text"}

\* C7: Fireworks with DROP_INVALID_MESSAGES = True.  For every input message of
\* a queried row that has a block whose type is not text or raw_text,
\* render_message returns the drop signal, and the row yields no example.
C7_DropInvalidInput ==
    recipe = "fireworks" /\ DROP_INVALID_MESSAGES =>
        \A i \in 1..Len(queried) :
            "json" \in DOMAIN queried[i].input =>
                \A k \in 1..Len(InputMessages(queried[i])) :
                    HasNonTextBlock(InputMessages(queried[i])[k]) =>
                        /\ render_message(InputMessages(queried[i])[k]).ret = None
                        /\ NoExampleOf(queried[i])

\* C7 witness: with DROP_INVALID_MESSAGES = True the dataset was written after
\* a row whose assistant message holds a text block and a tool_call block.
C7_Witness ==
    /\ recipe = "fireworks"
    /\ DROP_INVALID_MESSAGES
    /\ pc = "written"
    /\ Len(queried) = 1
    /\ \E k \in 1..Len(InputMessages(queried[1])) :
          /\ InputMessages(queried[1])[k].role = "assistant"
          /\ InputMessages(queried[1])[k].content = <<TextBlock, ToolCallBlock>>
    /\ df = <<>>
    /\ dataset.files = <<<<>>>>

\* The messages of the examples kept after the transform or written.
ExampleMessages ==
    UNION {{line.messages[k] : k \in 1..Len(line.messages)} :
              line \in WrittenLines
                       \cup (IF Transformed THEN {messages_of(r) : r \in KeptRows}
                             ELSE {})}

\* C8: Fireworks with DROP_INVALID_MESSAGES = True (the default).  No example
\* kept or written holds a message of role tool or a message with a tool_calls
\* field.
C8_NoToolsWhenDropping ==
    recipe = "fireworks" /\ DROP_INVALID_MESSAGES =>
        \A m \in ExampleMessages : m.role # "tool" /\ "tool_calls" \notin DOMAIN m

\* C8 witness: with DROP_INVALID_MESSAGES = True an example of a user message
\* and an assistant message was written.
C8_Witness ==
    /\ recipe = "fireworks"
    /\ DROP_INVALID_MESSAGES
    /\ pc = "written"
    /\ \E line \in WrittenLines :
          \E j, k \in 1..Len(line.messages) :
              j < k /\ line.messages[j].role = "user"
                    /\ line.messages[k].role = "assistant"

\* The blocks of the row's chat output.
OutputBlocksOf(row) == output_column(row).json.list

\* The types of the blocks of the row's chat output that are not known.
UnknownOutputTypes(row) ==
    IF "json" \in DOMAIN output_column(row)
    THEN {OutputBlocksOf(row)[k].type : k \in 1..Len(OutputBlocksOf(row))} \ KnownTypes
    ELSE {}

\* The text of the warning names the block type T.
NamesType(w, T) ==
    \/ w = "Fireworks may not support content block type: " \o T \o ", dropping example."
    \/ w = "We do not support content block type: " \o T \o ", dropping example."

\* A warning was emitted whose text names T.
WarnedOf(T) == \E k \in 1..Len(warnings) : NamesType(warnings[k], T)

\* The types of the blocks of the row: of its input messages and its output.
BlockTypesOf(row) ==
    {OutputBlocksOf(row)[k].type : k \in 1..Len(OutputBlocksOf(row))}
    \cup UNION {{InputMessages(row)[m].content[b].type :
                    b \in 1..Len(InputMessages(row)[m].content)} :
                m \in 1..Len(InputMessages(row))}

\* The row function got to the first block of type T of the row's output: no
\* input message signalled the drop, and the blocks of the output before that
\* block are rendered without one.
ReachesOutputBlock(row, T) ==
    /\ ~InputDrops(row)
    /\ \E k \in 1..Len(OutputBlocksOf(row)) :
          /\ OutputBlocksOf(row)[k].type = T
          /\ \A j \in 1..(k - 1) : OutputBlocksOf(row)[j].type # T
          /\ render_output(List(SubSeq(OutputBlocksOf(row), 1, k - 1))).ret # None

\* Dropping invalid messages is in force: the Fireworks setting, or the OpenAI
\* notebook, which has no setting and always drops.
DropInvalid == recipe = "openai" \/ DROP_INVALID_MESSAGES

SplitRan == split_runs > 0

\* The episode ids of the rows of a data frame.
EpisodesOf(rows) == {rows[k].episode_id : k \in 1..Len(rows)}

\* The index labels of the rows of a data frame.
IndexOf(rows) == {rows[k].index : k \in 1..Len(rows)}

\* C11: after the split no episode id has rows in train_df and in val_df, for
\* every df and every VAL_FRACTION from 0 to 1.
C11_DisjointEpisodes ==
    SplitRan => EpisodesOf(train_df) \cap EpisodesOf(val_df) = {}

\* C11 witness: the split of three rows, two of them of one episode, left rows
\* in both train_df and val_df.
C11_Witness ==
    /\ SplitRan
    /\ Len(df) = 3
    /\ Cardinality(EpisodesOf(df)) = 2
    /\ Len(train_df) > 0
    /\ Len(val_df) > 0

\* The least integer not below a / b, for a >= 0 and b > 0.
Ceiling(a, b) == (a + b - 1) \div b

\* C12 as stated: the training set gets ceil((1 - val_fraction) * |groups|) of
\* the episodes of df and the validation set the remaining ones.
C12_AsStated ==
    SplitRan =>
        LET groups == Cardinality(EpisodesOf(df))
            training == Ceiling((100 - VAL_FRACTION) * groups, 100)
        IN /\ Cardinality(EpisodesOf(train_df)) = training
           /\ Cardinality(EpisodesOf(val_df)) = groups - training

C14_SplitPartition ==
    SplitRan =>
        /\ Len(train_df) + Len(val_df) = Len(df)
        /\ IndexOf(train_df) \cap IndexOf(val_df) = {}
        /\ IndexOf(train_df) \cup IndexOf(val_df) = IndexOf(df)
        /\ Cardinality(IndexOf(train_df)) = Len(train_df)
        /\ Cardinality(IndexOf(val_df)) = Len(val_df)
        /\ \A i, j \in 1..Len(df) :
              df[i].episode_id = df[j].episode_id =>
                  (df[i].index \in IndexOf(train_df)) = (df[j].index \in IndexOf(train_df))
        /\ \A i \in 1..Len(queried) :
              InputDrops(queried[i]) \/ OutputDrops(queried[i]) =>
                  queried[i].index \notin IndexOf(train_df) \cup IndexOf(val_df)

\* C14 witness: of three queried rows one was dropped; the split put one of the
\* other two in train_df and one in val_df.
C14_Witness ==
    /\ pc = "split"
    /\ Len(queried) = 3
    /\ Len(df) = 2
    /\ Len(train_df) = 1
    /\ Len(val_df) = 1

\* -------------------------------------------------- properties of the query

\* The positions in the inference table of the inferences a returned row can
\* come from.
Source(row) ==
    {k \in 1..Len(store.inference) :
        /\ store.inference[k].function_name = FUNCTION_NAME
        /\ store.inference[k].variant_name = row.variant_name
        /\ store.inference[k].input = row.input
        /\ store.inference[k].output = row.output
        /\ store.inference[k].episode_id = row.episode_id}

\* The feedback rows about an entity: those of the metric (OpenAI), the
\* demonstrations (Fireworks).
EntityFeedback(target_id) ==
    {f \in store.feedback :
        /\ f.target_id = target_id
        /\ recipe = "openai" => f.metric_name = METRIC_NAME}

\* The most recent feedback rows about an entity.
Latest(target_id) ==
    {f \in EntityFeedback(target_id) :
        \A g \in EntityFeedback(target_id) : g.timestamp <= f.timestamp}

\* C15, as the claim states it: with a metric, every returned row comes from an
\* inference whose join entity has feedback for the metric, and the most recent
\* such feedback satisfies value <comparator> threshold (where several rows
\* share the greatest timestamp, one of them does).
C15_AsStated ==
    (recipe = "openai" /\ issued > 0) =>
        \A j \in 1..Len(queried) :
            \E k \in Source(queried[j]) :
                \E f \in Latest(join_value(store.inference[k])) :
                    compares(f.value)

\* C16, as the claim states it: every inference is returned at most once, and
\* the feedback value of its row is that of a feedback row of the greatest
\* timestamp among the feedback rows of its join entity.
C16_AsStated ==
    issued > 0 =>
        /\ \A k \in 1..Len(store.inference) :
               Cardinality({j \in 1..Len(queried) : k \in Source(queried[j])}) <= 1
        /\ \A j \in 1..Len(queried) :
               \E k \in Source(queried[j]) :
                   \E f \in Latest(join_value(store.inference[k])) :
                       queried[j].value = f.value

\* ------------------------------------------ properties of the configuration

\* How far the run has come: the number of configuration cells that have run.
Progress ==
    CASE pc = "loaded" -> 0
      [] pc = "metric" -> 1
      [] pc = "function" -> 2
      [] pc = "templates" -> 3
      [] pc = "inference_table" -> 4
      [] pc = "feedback_table" -> 5
      [] OTHER -> 6

\* The run has failed with an error, or will at one of its next cells: it has
\* not passed more than n configuration cells, and no query was issued.
FailsWithin(n) ==
    /\ issued = 0
    /\ pc = "failed" \/ Progress <= n
    /\ pc = "failed" => error # None

FunctionMissing ==
    FunctionTables[1] \notin config.tables \/ FunctionTables[2] \notin config.tables

MetricMissing ==
    MetricTables[1] \notin config.tables \/ MetricTables[2] \notin config.tables

\* C17: when the function is missing from the configuration, or the metric is
\* (OpenAI), or the function's type is neither chat nor json, or the metric's
\* type is neither float nor boolean, or its level neither episode nor
\* inference, the run fails with an error at the cell that finds it out, and
\* no query is ever issued to the store.
C17_ConfigErrors ==
    /\ (recipe = "openai" /\ MetricMissing) => FailsWithin(0)
    /\ FunctionMissing => FailsWithin(1)
    /\ (~FunctionMissing /\ config.function_type \notin {"chat", "json"})
           => FailsWithin(3)
    /\ (recipe = "openai" /\ ~MetricMissing
            /\ config.metric.type \notin {"float", "boolean"})
           => FailsWithin(4)
    /\ (recipe = "openai" /\ ~MetricMissing
            /\ config.metric.level \notin {"episode", "inference"})
           => FailsWithin(5)

\* A run has failed at the last of these checks: the metric's level is
\* unsupported.
C17_Witness ==
    /\ recipe = "openai"
    /\ pc = "failed"
    /\ error = Str("ValueError")
    /\ metric # None
    /\ feedback_table_name # None
    /\ metric.level = "session"
    /\ issued = 0

\* ------------------------------------------------- properties of the drops

\* The stored input or the stored assistant turn of a queried row is not JSON.
Unparsable(row) ==
    \/ "json" \notin DOMAIN row.input
    \/ "json" \notin DOMAIN output_column(row)

\* C18, as the claim states it: a queried row whose input or whose output or
\* feedback text is not JSON is dropped as a row of unsupported content is, and
\* the run goes on: the transform cell does not fail on it, and afterwards the
\* row is not in the data frame.
C18_AsStated ==
    \A k \in 1..Len(queried) :
        Unparsable(queried[k]) =>
            /\ error # Str("JSONDecodeError")
            /\ pc \notin {"configured", "queried"}
                   => queried[k].index \notin IndexOf(df)

\* The row function returns None for a queried row: its content is not
\* supported.
Dropped(row) ==
    /\ ~Unparsable(row)
    /\ sample_to_messages(row).error = None
    /\ sample_to_messages(row).ret = None

\* Every other queried row has its own result in the data frame.
OthersKept ==
    \A j \in 1..Len(queried) :
        ~Dropped(queried[j]) =>
            \E k \in 1..Len(df) :
                /\ df[k].index = queried[j].index
                /\ messages_of(df[k]) = sample_to_messages(queried[j]).ret

\* C19, as the claim states it: when rows of a result whose texts all parse
\* are dropped for unsupported content, the run does not abort, and once the
\* transform cell has run every other row, the rows after a dropped one too,
\* has the result it has on its own.
C19_AsStated ==
    ((\E k \in 1..Len(queried) : Dropped(queried[k]))
        /\ \A k \in 1..Len(queried) : ~Unparsable(queried[k]))
    => /\ pc # "failed"
       /\ pc \notin {"configured", "queried"} => OthersKept

\* The row with another position in the result and another episode.
Renamed(row, index, episode_id) ==
    [row EXCEPT !.index = index, !.episode_id = episode_id]

\* The warnings the row function emits for a row.
WarningsOf(row) ==
    {sample_to_messages(row).warnings[k] :
        k \in 1..Len(sample_to_messages(row).warnings)}

\* A text that names the row by an identifier of its source is not a text the
\* row function emits for the same content under every other identifier.
NamesRow(w, row) ==
    \E index \in 0..MaxRows : \E episode_id \in RowEpisodeIds :
        w \notin WarningsOf(Renamed(row, index, episode_id))

\* C20, as the claim states it: for every row dropped for unsupported content,
\* which the row function drops without an error, a warning was emitted whose
\* text names the type of a block of the row and the source identifier of the
\* row.
C20_AsStated ==
    pc \notin {"configured", "queried"} =>
        \A i \in 1..Len(queried) :
            Dropped(queried[i]) =>
                \E k \in 1..Len(warnings) :
                    /\ \E T \in BlockTypesOf(queried[i]) : NamesType(warnings[k], T)
                    /\ NamesRow(warnings[k], queried[i])

\* ------------------------------------------ properties of the system message

\* The example made of a queried row, once the transform cell has run: the
\* messages of its row in the data frame, or none.
ExamplesOf(row) ==
    IF Transformed
    THEN {messages_of(df[k]).messages :
              k \in {j \in 1..Len(df) : df[j].index = row.index}}
    ELSE {}

\* The system messages of an example.
SystemMessages(ex) == {k \in 1..Len(ex) : ex[k].role = "system"}

\* The system message the row is to get: rendered from the template where the
\* variant has one, the raw system value otherwise.
SystemMessageOf(row) ==
    [role |-> "system",
     content |-> IF "system_template" \in variant
                 THEN Str(render_template("system", get_system(row.input.json)))
                 ELSE get_system(row.input.json)]

\* C21, as the claim states it: once the transform cell has run, every queried
\* row whose texts parse and whose content is supported has an example; the
\* example has no system message when the variant has no system template and
\* the input no system data, and otherwise starts with exactly one system
\* message, rendered from the template if there is one and the raw system
\* value if not.
C21_AsStated ==
    pc \notin {"configured", "queried"} =>
        \A i \in 1..Len(queried) :
            (~Unparsable(queried[i]) /\ ~InputDrops(queried[i])
                 /\ ~OutputDrops(queried[i])) =>
                /\ ExamplesOf(queried[i]) # {}
                /\ \A ex \in ExamplesOf(queried[i]) :
                     IF "system_template" \in variant
                            \/ PyLen(get_system(queried[i].input.json)) > 0
                     THEN /\ SystemMessages(ex) = {1}
                          /\ ex[1] = SystemMessageOf(queried[i])
                     ELSE SystemMessages(ex) = {}

\* --------------------------------------- properties of the rendering functions

\* C22: for a JSON function render_output returns exactly the assistant
\* message whose content is the raw output string: it emits no warning, does
\* not signal the drop and adds no tool_calls, in both notebooks and under
\* either setting of DROP_INVALID_MESSAGES.
C22_JsonOutputRaw ==
    (function_type = "json" /\ call.fn = "render_output" /\ pc = "returned") =>
        /\ ret = [role |-> "assistant", content |-> Str(call.arg.dict.raw)]
        /\ ret # None
        /\ "tool_calls" \notin DOMAIN ret
        /\ warnings = <<>>

\* C22 witness: render_output returned for a JSON function whose raw output is
\* the text of a list of blocks, with invalid messages dropped.
C22_Witness ==
    /\ function_type = "json"
    /\ DROP_INVALID_MESSAGES
    /\ recipe = "fireworks"
    /\ call.fn = "render_output"
    /\ pc = "returned"
    /\ call.arg # JsonOutput
    /\ call.arg.dict.raw # ""
    /\ ret # None

\* A call was given a thought block, and text-bearing blocks only: no unknown
\* block and no tool block.  render_output is given the blocks of a chat
\* output.
ThoughtAmongTexts ==
    /\ call.fn = "render_message" \/ (call.fn = "render_output" /\ function_type = "chat")
    /\ \A k \in 1..Len(BlocksOf(call)) : IsTextBearing(BlocksOf(call)[k])
    /\ \E k \in 1..Len(BlocksOf(call)) : BlocksOf(call)[k].type = "thought"

\* C23, as the claim states it: a message or chat output that holds a thought
\* block among text-bearing blocks is not dropped, in both notebooks and under
\* either setting of DROP_INVALID_MESSAGES, and the content of the emitted
\* message holds <think>text</think> at the block's position among the texts:
\* as the part of that position (OpenAI), or joined at that position
\* (Fireworks).
C23_AsStated ==
    (pc = "returned" /\ ThoughtAmongTexts) =>
        /\ ret # None
        /\ "content" \in DOMAIN RoleMessage
        /\ IF recipe = "openai"
           THEN IsPartsOf(call, RoleMessage.content)
           ELSE RoleMessage.content = Str(Joined(TextsOf(call), Len(TextsOf(call))))

\* ------------------------------- properties of the messages without content

\* An input message that contributes no text and no tool call: its content is
\* empty, or it is a user message of tool_result blocks only.
NoContribution(message) ==
    /\ \A k \in 1..Len(message.content) : IsToolResult(message.content[k])
    /\ message.role = "user" \/ Len(message.content) = 0

\* Tool results are kept: always in the OpenAI notebook, in the Fireworks
\* notebook when invalid messages are not dropped.
ToolResultsPermitted == recipe = "openai" \/ ~DROP_INVALID_MESSAGES

\* render_message returns for the message the tool-role messages of its
\* tool_result blocks and nothing else, and a row whose other messages and
\* output are rendered has its complete example once the transform cell has
\* run.
OnlyToolMessages(row, message) ==
    /\ render_message(message).ret # None
    /\ Len(render_message(message).ret.list) = Len(message.content)
    /\ \A j \in 1..Len(message.content) :
          render_message(message).ret.list[j]
              = [role |-> "tool", tool_call_id |-> message.content[j].id,
                 content |-> Str(message.content[j].result)]
    /\ (Transformed /\ ~InputDrops(row) /\ ~OutputDrops(row)) =>
          /\ ExamplesOf(row) # {}
          /\ \A ex \in ExamplesOf(row) : Complete(row, ex)

IsToolCall(block) == block.type = "tool_call"

\* Tool calls are kept: always in the OpenAI notebook, in the Fireworks
\* notebook when invalid messages are not dropped.
ToolCallsPermitted == recipe = "openai" \/ ~DROP_INVALID_MESSAGES

\* The messages a returned call emitted, in order.
EmittedList == IF call.fn = "render_message" THEN ret.list ELSE <<ret>>

\* The tool_calls entry of a tool_call block: its id, its name and its
\* arguments as JSON text.
EntryOf(block) ==
    [function |-> [arguments |-> json_dumps(block.arguments), name |-> block.name],
     id |-> block.id, type |-> "function"]

\* C25: where tool calls are permitted, an assistant message, of the input or
\* of a chat output, that holds tool_call blocks among text-bearing blocks is
\* rendered to exactly one message, of role assistant; its tool_calls list has
\* one entry per tool_call block in the order of the source, each with the
\* block's id, its name and its arguments serialized to JSON; it has a content
\* exactly when the message has a text-bearing block.
C25_ToolCallsAccumulate ==
    (/\ pc = "returned"
     /\ ToolCallsPermitted
     /\ call.fn = "render_message" \/ (call.fn = "render_output" /\ function_type = "chat")
     /\ RoleOf(call) = "assistant"
     /\ \A k \in 1..Len(BlocksOf(call)) :
           IsTextBearing(BlocksOf(call)[k]) \/ IsToolCall(BlocksOf(call)[k])
     /\ \E k \in 1..Len(BlocksOf(call)) : IsToolCall(BlocksOf(call)[k]))
    => /\ ret # None
       /\ Len(EmittedList) = 1
       /\ EmittedList[1].role = "assistant"
       /\ "tool_calls" \in DOMAIN EmittedList[1]
       /\ EmittedList[1].tool_calls
              = [k \in 1..Len(SelectSeq(BlocksOf(call), IsToolCall)) |->
                    EntryOf(SelectSeq(BlocksOf(call), IsToolCall)[k])]
       /\ ("content" \in DOMAIN EmittedList[1]) <=> (Len(TextsOf(call)) > 0)

\* C25 witness: the OpenAI notebook rendered a chat output of a tool call with
\* string arguments, a text and a tool call with structured arguments to one
\* message with a content and the two entries in that order.
C25_Witness ==
    /\ recipe = "openai"
    /\ ChatOutputRendered
    /\ call.arg.list = <<StrToolCallBlock, OutputTextBlock, ToolCallBlock>>
    /\ "content" \in DOMAIN ret
    /\ Len(ret.tool_calls) = 2
    /\ ret.tool_calls[1].id = "c2"
    /\ ret.tool_calls[1].function.arguments = "\"{}\""
    /\ ret.tool_calls[2].id = "c1"

\* A tool block on the wrong side: a tool_call block in a user message, a
\* tool_result block in an assistant message or in a chat output.
WrongSide(block) ==
    \/ IsToolCall(block) /\ RoleOf(call) = "user"
    \/ IsToolResult(block) /\ RoleOf(call) = "assistant"

\* C26: a message or a chat output that holds a tool block on the wrong side
\* is the drop signal, in both notebooks and under either setting of
\* DROP_INVALID_MESSAGES: the call returns None, so nothing of it becomes a
\* message or a tool_calls entry, and a warning is emitted.
C26_WrongSideDrops ==
    (/\ pc = "returned"
     /\ call.fn = "render_message" \/ (call.fn = "render_output" /\ function_type = "chat")
     /\ \E k \in 1..Len(BlocksOf(call)) : WrongSide(BlocksOf(call)[k]))
    => /\ ret = None
       /\ Emitted = {}
       /\ Len(warnings) >= 1

\* C26 witness: the Fireworks notebook, with DROP_INVALID_MESSAGES = False,
\* returned None for a user message of a text block and a tool_call block.
C26_Witness ==
    /\ recipe = "fireworks"
    /\ ~DROP_INVALID_MESSAGES
    /\ pc = "returned"
    /\ call.fn = "render_message"
    /\ call.arg = [role |-> "user", content |-> <<TextBlock, ToolCallBlock>>]
    /\ ret = None
    /\ warnings = <<DoNotSupportWarning("tool_call")>>

\* ------------------------------------------------ what a message carries

\* A message carries something besides its role: a tool message its
\* tool_call_id and its content, any other message a content or tool_calls.
Carries(m) ==
    IF m.role = "tool"
    THEN {"tool_call_id", "content"} \subseteq DOMAIN m
    ELSE "content" \in DOMAIN m \/ "tool_calls" \in DOMAIN m

\* C28, as the claim states it: every message of every example the transform
\* cell produced carries a content or tool_calls (a tool message its
\* tool_call_id and a content); none consists of its role alone.
C28_AsStated ==
    \A i \in 1..Len(queried) :
       \A ex \in ExamplesOf(queried[i]) :
          \A k \in 1..Len(ex) : Carries(ex[k])

\* ------------------------------------------------ properties of the job

\* The name the provider reports for the model of the job.
ReportedModel ==
    Str(IF recipe = "fireworks" THEN get_model_identifier(job.model) ELSE job.model)

\* C27, as the claim states it: once the job has reached a final state,
\* completed, failed or cancelled, the polling loop ends, given that polls
\* are answered; an iteration in which the poll of a job raises prints the
\* error and leaves the run in the loop; and in the Fireworks notebook the
\* loop is left normally only when the last poll read JOB_STATE_COMPLETED,
\* and a poll that read JOB_STATE_FAILED ends the run with a ValueError.
C27_AsStated ==
    /\ (job # None /\ job.state \in Terminal /\ Polling) ~> ~Polling
    /\ [][(job # None /\ Polling /\ printed' = printed + 1) => Polling']_vars
    /\ [](recipe = "fireworks" /\ pc = "polled" => job_status.status = Succeeded)
    /\ [](recipe = "fireworks" /\ job_status # None /\ job_status.status = Failed
             => pc = "failed" /\ error = Str("ValueError"))

\* C29, as the claim states it: a model or a variant configuration exists
\* only if the job succeeded, and the model it names is the one the provider
\* reports for the job.
C29_AsStated ==
    /\ model_config # None =>
          /\ job.state = Succeeded
          /\ model_config.models = ReportedModel
          /\ model_config.model_name = ReportedModel
    /\ full_variant_config # None =>
          /\ job.state = Succeeded
          /\ full_variant_config.model = ReportedModel

====
